---- MODULE Spec2Model ----
(***************************************************************************)
(* The execution core of the dada interpreter: the abstract machine (stack *)
(* of frames, object heap, permission graph) and the single-step           *)
(* interpreter of components/dada-execute/src/step.rs.                     *)
(*                                                                         *)
(* step.rs is modelled from its code.  The sub-modules it declares (give,  *)
(* share, lease, tenant, revoke, traversal, gc, assert_invariants and the  *)
(* machine) are modelled from sections 3 and 4 of the specification.       *)
(***************************************************************************)
EXTENDS Integers, Sequences, FiniteSets, TLC

\* ------------------------------------------------------------------ bounds
\* Number of local variables of a frame.
NumLocals == 3
\* Size of the permission arena (handles are never reused).
MaxPerm == 5
\* Size of the object arena (handles are never reused).
MaxObj == 2

\* Depth of the call stack.
MaxFrames == 2

\* Shape of the BIR under execution in the specifications whose statements
\* and terminators are inputs of each step: the number of statements of each
\* basic block.  ProgramSpec has programs whose blocks list their
\* statements, and step() takes the statement at the index pc.statement.
BlockStatements == <<1, 0>>
Blocks == 1..Len(BlockStatements)
Locals == 1..NumLocals
\* The fields a place can name: the first two of a tuple.
Fields == {1, 2}

\* ------------------------------------------------------------- data model
Uninit == [object |-> 0, permission |-> 0]
IsInit(v) == v.permission # 0

Value(o, p) == [object |-> o, permission |-> p]

FreePerm == [kind |-> "Free", lessor |-> 0, tenant |-> 0, canceled |-> FALSE]
FreeObj == [kind |-> "Free", fields |-> <<>>, data |-> 0]

ValidPermissionData(k) == [kind |-> k, lessor |-> 0, tenant |-> 0, canceled |-> FALSE]

ObjectData(k, d) == [kind |-> k, fields |-> <<>>, data |-> d]
TupleData(fs) == [kind |-> "Tuple", fields |-> fs, data |-> 0]
\* A thunk: kind is "ThunkFn" (a user async function) or "ThunkRust" (a
\* native function of the host); fields holds the captured arguments.
ThunkData(kind, arguments) == [kind |-> kind, fields |-> arguments, data |-> 0]
\* The fields a place can name: those of a tuple.
named_fields(o) == IF o.kind = "Tuple" THEN o.fields ELSE <<>>

ProgramCounter(b, s) == [bir |-> 1, basic_block |-> b, statement |-> s]
\* The pc of a frame just pushed for the function bir.
start_point(bir) == [bir |-> bir, basic_block |-> 1, statement |-> 0]
NoPc == [bir |-> 0, basic_block |-> 0, statement |-> 0]
move_to_block(pc, b) == [pc EXCEPT !.basic_block = b, !.statement = 0]

\* Places and target places of the BIR (PlaceData / TargetPlaceData).
LocalVariable(v) == [var |-> v, path |-> <<>>]
Dot(place, f) == [var |-> place.var, path |-> Append(place.path, f)]
Places == {LocalVariable(v) : v \in Locals}
            \cup {Dot(LocalVariable(v), f) : v \in Locals, f \in Fields}
TargetLocal(v) == [kind |-> "LocalVariable", place |-> LocalVariable(v), field |-> 0]
TargetDot(place, f) == [kind |-> "Dot", place |-> place, field |-> f]
\* The programs explored write the first field of an object and read both.
TargetPlaces == {TargetLocal(v) : v \in Locals}
                  \cup {TargetDot(LocalVariable(v), 1) : v \in Locals}

\* Results of the fallible operations (eyre::Result): err = "none" is Ok.
Ok(m, v) == [m |-> m, val |-> v, err |-> "none"]
Err(m, e) == [m |-> m, val |-> Uninit, err |-> e]

Range(seq) == {seq[i] : i \in 1..Len(seq)}

\* ---------------------------------------------------------------- machine
top_frame(m) == m.stack[Len(m.stack)]

new_object(m, data) ==
    [m |-> [m EXCEPT !.objects = Append(m.objects, data)], id |-> Len(m.objects) + 1]

new_permission(m, data) ==
    [m |-> [m EXCEPT !.permissions = Append(m.permissions, data)],
     id |-> Len(m.permissions) + 1]

set_pc(m, pc) == [m EXCEPT !.stack[Len(m.stack)].pc = pc]

\* A location holds a value: a slot of the top frame or a field of an object.
SlotLoc(v) == [var |-> v, object |-> 0, field |-> 0]
FieldLoc(o, f) == [var |-> 0, object |-> o, field |-> f]

read_loc(m, loc) ==
    IF loc.var # 0 THEN top_frame(m).variables[loc.var]
    ELSE m.objects[loc.object].fields[loc.field]

write_loc(m, loc, v) ==
    IF loc.var # 0 THEN [m EXCEPT !.stack[Len(m.stack)].variables[loc.var] = v]
    ELSE [m EXCEPT !.objects[loc.object].fields[loc.field] = v]

\* ---------------------------------------------------------------- revoke
RECURSIVE revoke(_, _)
\* Cancels perm and everything in its subtree of tenants.
revoke(m, perm) ==
    IF perm = 0 \/ m.permissions[perm].canceled THEN m
    ELSE revoke([m EXCEPT !.permissions[perm].canceled = TRUE],
                m.permissions[perm].tenant)

\* Revokes the tenant of perm, if any; perm itself stays valid.
revoke_tenant(m, perm) ==
    LET t == m.permissions[perm].tenant
    IN IF t = 0 THEN m
       ELSE [revoke(m, t) EXCEPT !.permissions[perm].tenant = 0]

RECURSIVE revoke_tenants(_, _)
revoke_tenants(m, perms) ==
    IF perms = <<>> THEN m
    ELSE revoke_tenants(revoke_tenant(m, Head(perms)), Tail(perms))

\* Mutant of tenant: the prior tenant is not canceled.
tenant_keeps_prior(m, lessor, t) ==
    [m EXCEPT !.permissions[lessor].tenant = t,
              !.permissions[t].lessor = lessor]

\* Tenant installation: cancel the prior tenant of lessor, then link.
tenant(m, lessor, t) ==
    LET m1 == revoke_tenant(m, lessor)
    IN [m1 EXCEPT !.permissions[lessor].tenant = t,
                  !.permissions[t].lessor = lessor]

\* ------------------------------------------------------------- traversal
Traversal(e, tr, v, loc) == [err |-> e, traversed |-> tr, value |-> v, loc |-> loc]

\* One step of a traversal: the value found at loc is read.
traverse_value(m, tr, loc) ==
    LET v == read_loc(m, loc)
    IN IF ~IsInit(v) THEN Traversal("Uninitialized", tr, v, loc)
       ELSE IF m.permissions[v.permission].canceled
            THEN Traversal("UseOfCanceledPermission", tr, v, loc)
            ELSE Traversal("none", Append(tr, v.permission), v, loc)

RECURSIVE traverse_fields(_, _, _)
traverse_fields(m, t, path) ==
    IF t.err # "none" \/ path = <<>> THEN t
    ELSE LET o == m.objects[t.value.object]
         IN IF Head(path) > Len(named_fields(o))
            THEN [t EXCEPT !.err = "NoSuchField"]
            ELSE traverse_fields(m,
                    traverse_value(m, t.traversed, FieldLoc(t.value.object, Head(path))),
                    Tail(path))

traverse_to_object(m, place) ==
    traverse_fields(m, traverse_value(m, <<>>, SlotLoc(place.var)), place.path)

RECURSIVE revoke_all(_, _)
revoke_all(m, perms) ==
    IF perms = <<>> THEN m ELSE revoke_all(revoke(m, Head(perms)), Tail(perms))

PlaceTraversal(m, e, tr, loc) == [m |-> m, err |-> e, traversed |-> tr, loc |-> loc]

\* The previous occupant of the location written joins the traversal.
with_occupant(tr, old) ==
    IF IsInit(old) THEN Append(tr, old.permission) ELSE tr

\* The tenants of the permissions along the traversal are revoked; the
\* permissions themselves are not.
revoke_previous(m, tr, loc) ==
    PlaceTraversal(revoke_tenants(m, tr), "none", tr, loc)

\* The owner of the field has been traversed (t); the field is resolved.
traverse_to_field(m, t, field) ==
    IF t.err # "none" THEN PlaceTraversal(m, t.err, t.traversed, t.loc)
    ELSE IF field > Len(named_fields(m.objects[t.value.object]))
    THEN PlaceTraversal(m, "NoSuchField", t.traversed, t.loc)
    ELSE revoke_previous(m,
            with_occupant(t.traversed, read_loc(m, FieldLoc(t.value.object, field))),
            FieldLoc(t.value.object, field))

\* Mutant of traverse_to_field: the permissions traversed are revoked
\* themselves.
traverse_to_field_revokes_traversed(m, t, field) ==
    IF t.err # "none" THEN PlaceTraversal(m, t.err, t.traversed, t.loc)
    ELSE IF field > Len(named_fields(m.objects[t.value.object]))
    THEN PlaceTraversal(m, "NoSuchField", t.traversed, t.loc)
    ELSE PlaceTraversal(revoke_all(m, t.traversed), "none", t.traversed,
                        FieldLoc(t.value.object, field))

\* Mutant of traverse_to_place: the permissions traversed are revoked
\* themselves, not only their tenants.
traverse_to_place_revokes_traversed(m, target) ==
    IF target.kind = "LocalVariable"
    THEN PlaceTraversal(m, "none", <<>>, SlotLoc(target.place.var))
    ELSE traverse_to_field_revokes_traversed(m,
            traverse_to_object(m, target.place), target.field)

\* Resolves a target place to a location that can be written.  The tenants of
\* the permissions along the traversal, the one of the previous occupant
\* included, are revoked; the permissions themselves are not.
traverse_to_place(m, target) ==
    IF target.kind = "LocalVariable"
    THEN revoke_previous(m,
            with_occupant(<<>>, read_loc(m, SlotLoc(target.place.var))),
            SlotLoc(target.place.var))
    ELSE traverse_to_field(m, traverse_to_object(m, target.place), target.field)

\* ----------------------------------------------------- permission algebra
\* give of the value a traversal t ended at.
give_traversed(m, t) ==
    LET k == m.permissions[t.value.permission].kind
    IN IF t.err # "none" THEN Err(m, t.err)
       ELSE IF k = "My" THEN Ok(write_loc(m, t.loc, Uninit), t.value)
       ELSE IF k = "Our" THEN Ok(m, t.value)
       ELSE Err(m, "InsufficientPermission")

give_place(m, place) == give_traversed(m, traverse_to_object(m, place))

\* A new permission n borrows from the permission of the value at t.
borrow(n, t) ==
    Ok(tenant(n.m, t.value.permission, n.id), Value(t.value.object, n.id))

\* share of the value a traversal t ended at.
share_traversed(m, t) ==
    LET p == t.value.permission
        k == m.permissions[p].kind
    IN IF t.err # "none" THEN Err(m, t.err)
       ELSE IF k = "My" THEN Ok([m EXCEPT !.permissions[p].kind = "Our"], t.value)
       ELSE IF k = "Our" THEN Ok(m, t.value)
       ELSE borrow(new_permission(m, ValidPermissionData("Shared")), t)

share_place(m, place) == share_traversed(m, traverse_to_object(m, place))

\* lease of the value a traversal t ended at.
lease_traversed(m, t) ==
    LET k == m.permissions[t.value.permission].kind
    IN IF t.err # "none" THEN Err(m, t.err)
       ELSE IF k = "Our" THEN Err(m, "InsufficientPermission")
       ELSE borrow(new_permission(m, ValidPermissionData("Leased")), t)

lease_place(m, place) == lease_traversed(m, traverse_to_object(m, place))

\* ------------------------------------------------------------ expressions
\* An expression: its kind, the place or the two places it names, its
\* literal or operator, and the places of a tuple.
IntegerLiteral(v) == [kind |-> "IntegerLiteral", place |-> LocalVariable(1),
                      place2 |-> LocalVariable(1), v |-> v, places |-> <<>>]
BooleanLiteral(v) == [kind |-> "BooleanLiteral", place |-> LocalVariable(1),
                      place2 |-> LocalVariable(1), v |-> v, places |-> <<>>]
\* The text of a string literal is carried as a number, the value of its
\* bytes in base 256 ("w" is 119).
StringLiteral(v) == [kind |-> "StringLiteral", place |-> LocalVariable(1),
                     place2 |-> LocalVariable(1), v |-> v, places |-> <<>>]
UnitExpr == [kind |-> "Unit", place |-> LocalVariable(1), place2 |-> LocalVariable(1),
             v |-> 0, places |-> <<>>]
GiveShare(place) == [kind |-> "GiveShare", place |-> place, place2 |-> place,
                     v |-> 0, places |-> <<>>]
Lease(place) == [kind |-> "Lease", place |-> place, place2 |-> place,
                 v |-> 0, places |-> <<>>]
Give(place) == [kind |-> "Give", place |-> place, place2 |-> place,
                v |-> 0, places |-> <<>>]
\* ExprData::Tuple(places): any number of places.
Tuple(places) == [kind |-> "Tuple", place |-> LocalVariable(1),
                  place2 |-> LocalVariable(1), v |-> 0, places |-> places]
ErrorExpr == [kind |-> "Error", place |-> LocalVariable(1), place2 |-> LocalVariable(1),
              v |-> 0, places |-> <<>>]
\* The binary operators explored: addition.
Plus == 1
Op(lhs, op, rhs) == [kind |-> "Op", place |-> lhs, place2 |-> rhs, v |-> op,
                     places |-> <<>>]

with_handles(object, p) == Ok(p.m, Value(object, p.id))

\* A value with a fresh permission for the object o just allocated.
with_permission(o, data) == with_handles(o.id, new_permission(o.m, data))

\* A literal allocates a primitive object with a fresh `our` permission.
literal(m, data) == with_permission(new_object(m, data), ValidPermissionData("Our"))

peek_traversed(m, t) == IF t.err # "none" THEN Err(m, t.err) ELSE Ok(m, t.value)

\* Reads the value at place without any side effect.
peek_place(m, place) == peek_traversed(m, traverse_to_object(m, place))

RECURSIVE give_places(_, _, _)
RECURSIVE gave_place(_, _, _)
\* `places.iter().map(|place| self.give_place(..)).collect::<Result<..>>()?`:
\* the places are given from left to right; the first fault ends the
\* evaluation and the places after it are not given.
give_places(m, places, fields) ==
    IF places = <<>> THEN [m |-> m, fields |-> fields, err |-> "none"]
    ELSE gave_place(give_place(m, Head(places)), Tail(places), fields)

\* The place has been given with result r: the places left are given next.
gave_place(r, places, fields) ==
    IF r.err # "none" THEN [m |-> r.m, fields |-> fields, err |-> r.err]
    ELSE give_places(r.m, places, Append(fields, r.val))

\* The fields have been given: the tuple is allocated with a fresh `my`
\* permission.
tuple_of(given) ==
    IF given.err # "none" THEN Err(given.m, given.err)
    ELSE with_permission(new_object(given.m, TupleData(given.fields)),
                         ValidPermissionData("My"))

\* apply_op on the objects of the two operands: the sum of two unsigned
\* integers is a new integer with a fresh `our` permission; there is no
\* operator for any other pair of kinds.
apply_op(m, op, lhs, rhs) ==
    IF op = Plus /\ lhs.kind = "Uint" /\ rhs.kind = "Uint"
    THEN literal(m, ObjectData("Uint", lhs.data + rhs.data))
    ELSE Err(m, "TypeMismatch")

\* The two operands have been traversed (`?` on each traversal, the left
\* one first): the operator is applied to the objects they ended at.
op_traversed(m, op, lhs_traversal, rhs_traversal) ==
    IF lhs_traversal.err # "none" THEN Err(m, lhs_traversal.err)
    ELSE IF rhs_traversal.err # "none" THEN Err(m, rhs_traversal.err)
    ELSE apply_op(m, op, m.objects[lhs_traversal.value.object],
                  m.objects[rhs_traversal.value.object])

\* ExprData::Op(lhs, op, rhs): both operands are traversed with
\* traverse_to_object, as peek_place does, and the operator is applied.
eval_op(m, expr) ==
    op_traversed(m, expr.v, traverse_to_object(m, expr.place),
                 traverse_to_object(m, expr.place2))

\* The arms of eval_expr that allocate: literals, unit, tuples, operators;
\* and the error expression.
eval_expr_allocating(m, expr) ==
    CASE expr.kind = "BooleanLiteral" -> literal(m, ObjectData("Bool", expr.v))
      [] expr.kind = "IntegerLiteral" -> literal(m, ObjectData("Uint", expr.v))
      [] expr.kind = "StringLiteral" -> literal(m, ObjectData("String", expr.v))
      [] expr.kind = "Unit" -> literal(m, ObjectData("Unit", 0))
      [] expr.kind = "Tuple" -> tuple_of(give_places(m, expr.places, <<>>))
      [] expr.kind = "Op" -> eval_op(m, expr)
      [] expr.kind = "Error" -> Err(m, "CompilationError")

\* Mutants of eval_expr: an arm of the match calls another operation.
eval_expr_lease_shares(m, expr) ==
    CASE expr.kind = "GiveShare" -> share_place(m, expr.place)
      [] expr.kind = "Lease" -> share_place(m, expr.place)
      [] expr.kind = "Give" -> give_place(m, expr.place)
      [] OTHER -> eval_expr_allocating(m, expr)

eval_expr_give_shares(m, expr) ==
    CASE expr.kind = "GiveShare" -> share_place(m, expr.place)
      [] expr.kind = "Lease" -> lease_place(m, expr.place)
      [] expr.kind = "Give" -> share_place(m, expr.place)
      [] OTHER -> eval_expr_allocating(m, expr)

eval_expr_give_peeks(m, expr) ==
    CASE expr.kind = "GiveShare" -> share_place(m, expr.place)
      [] expr.kind = "Lease" -> lease_place(m, expr.place)
      [] expr.kind = "Give" -> peek_place(m, expr.place)
      [] OTHER -> eval_expr_allocating(m, expr)

eval_expr_give_leases(m, expr) ==
    CASE expr.kind = "GiveShare" -> share_place(m, expr.place)
      [] expr.kind = "Lease" -> lease_place(m, expr.place)
      [] expr.kind = "Give" -> lease_place(m, expr.place)
      [] OTHER -> eval_expr_allocating(m, expr)

eval_expr_share_leases(m, expr) ==
    CASE expr.kind = "GiveShare" -> lease_place(m, expr.place)
      [] expr.kind = "Lease" -> lease_place(m, expr.place)
      [] expr.kind = "Give" -> give_place(m, expr.place)
      [] OTHER -> eval_expr_allocating(m, expr)

eval_expr_share_peeks(m, expr) ==
    CASE expr.kind = "GiveShare" -> peek_place(m, expr.place)
      [] expr.kind = "Lease" -> lease_place(m, expr.place)
      [] expr.kind = "Give" -> give_place(m, expr.place)
      [] OTHER -> eval_expr_allocating(m, expr)

eval_expr(m, expr) ==
    CASE expr.kind = "GiveShare" -> share_place(m, expr.place)
      [] expr.kind = "Lease" -> lease_place(m, expr.place)
      [] expr.kind = "Give" -> give_place(m, expr.place)
      [] OTHER -> eval_expr_allocating(m, expr)

\* Mutant of assign_place: the value is written into the machine as it was
\* before the traversal, so the revocations of the traversal are lost.
write_stale(m, t, value) ==
    IF t.err # "none" THEN Err(m, t.err) ELSE Ok(write_loc(m, t.loc, value), value)

assign_place_stale(m, target, value) ==
    write_stale(m, traverse_to_place(m, target), value)

\* `*traversal.place = value`
write_traversed(m, t, value) ==
    IF t.err # "none" THEN Err(m, t.err) ELSE Ok(write_loc(t.m, t.loc, value), value)

assign_place(m, target, value) ==
    write_traversed(m, traverse_to_place(m, target), value)

\* ------------------------------------------------------------- statements
Assign(target, expr) == [kind |-> "Assign", target |-> target, expr |-> expr]

\* The expression has been evaluated to value (or has faulted).
assign_value(value, target) ==
    IF value.err # "none" THEN value
    ELSE assign_place(value.m, target, value.val)

\* Mutant of step_statement: the target is traversed, and the tenants on the
\* way revoked, before the expression is evaluated.
step_statement_revokes_first(m, statement) ==
    assign_value(eval_expr(traverse_to_place(m, statement.target).m, statement.expr),
                 statement.target)

step_statement(m, statement) ==
    assign_value(eval_expr(m, statement.expr), statement.target)

\* --------------------------------------------------------------------- gc
\* Values held in the slots of all frames.
StackValues(m) ==
    {m.stack[i].variables[v] : i \in 1..Len(m.stack), v \in Locals} \ {Uninit}

FieldValues(m, o) ==
    {m.objects[o].fields[f] : f \in 1..Len(m.objects[o].fields)} \ {Uninit}

RECURSIVE MarkObjects(_, _)
MarkObjects(m, objs) ==
    LET more == objs \cup {v.object : v \in UNION {FieldValues(m, o) : o \in objs}}
    IN IF more = objs THEN objs ELSE MarkObjects(m, more)

\* The live values: the roots and the fields of every object reachable from them.
LiveValues(m, roots) ==
    LET rootvals == StackValues(m) \cup (roots \ {Uninit})
        objs == MarkObjects(m, {v.object : v \in rootvals})
    IN rootvals \cup UNION {FieldValues(m, o) : o \in objs}

RECURSIVE LessorChain(_, _)
LessorChain(m, p) ==
    IF p = 0 \/ m.permissions[p].kind = "Free" THEN {}
    ELSE {p} \cup LessorChain(m, m.permissions[p].lessor)

MarkPermissions(m, roots) ==
    UNION {LessorChain(m, v.permission) : v \in LiveValues(m, roots)}

\* Mutant of gc: only the permissions the live values hold are marked, not
\* their lessors.
gc_drops_lessors(m, roots) ==
    LET live == LiveValues(m, roots)
        objs == {v.object : v \in live}
        perms == {v.permission : v \in live}
    IN [m EXCEPT
          !.objects = [o \in 1..Len(m.objects) |->
                          IF o \in objs THEN m.objects[o] ELSE FreeObj],
          !.permissions = [p \in 1..Len(m.permissions) |->
                          IF p \notin perms THEN FreePerm
                          ELSE IF m.permissions[p].tenant \in perms THEN m.permissions[p]
                          ELSE [m.permissions[p] EXCEPT !.tenant = 0]]]

gc(m, roots) ==
    LET live == LiveValues(m, roots)
        objs == {v.object : v \in live}
        perms == MarkPermissions(m, roots)
    IN [m EXCEPT
          !.objects = [o \in 1..Len(m.objects) |->
                          IF o \in objs THEN m.objects[o] ELSE FreeObj],
          !.permissions = [p \in 1..Len(m.permissions) |->
                          IF p \notin perms THEN FreePerm
                          ELSE IF m.permissions[p].tenant \in perms THEN m.permissions[p]
                          ELSE [m.permissions[p] EXCEPT !.tenant = 0]]]

\* ------------------------------------------------------ assert_invariants
\* The places of the machine that hold a value with permission p: slots of
\* the frames and fields of allocated objects.
holders(m, p) ==
    {x \in (1..Len(m.stack)) \X Locals : m.stack[x[1]].variables[x[2]].permission = p}
    \cup {x \in (1..Len(m.objects)) \X Fields :
             /\ x[2] <= Len(m.objects[x[1]].fields)
             /\ m.objects[x[1]].fields[x[2]].permission = p}

\* The values the machine holds refer to allocated objects and permissions.
values_allocated(m) ==
    \A v \in StackValues(m) \cup UNION {FieldValues(m, o) : o \in 1..Len(m.objects)} :
       /\ m.objects[v.object].kind # "Free"
       /\ m.permissions[v.permission].kind # "Free"

\* A tenant names its lessor, `my` and `our` permissions have no lessor, and a
\* `my` permission is held in one place only.
permission_valid(m, p) ==
    /\ m.permissions[p].tenant # 0 =>
          /\ m.permissions[m.permissions[p].tenant].kind # "Free"
          /\ m.permissions[m.permissions[p].tenant].lessor = p
    /\ m.permissions[p].kind \in {"My", "Our"} => m.permissions[p].lessor = 0
    /\ m.permissions[p].kind = "My" => Cardinality(holders(m, p)) <= 1

\* assert_invariants: Ok, or the failure of the assertion.
assert_invariants(m) ==
    IF /\ values_allocated(m)
       /\ \A p \in 1..Len(m.permissions) :
             m.permissions[p].kind = "Free" \/ permission_valid(m, p)
    THEN "none" ELSE "InvariantViolation"

\* The step ends with cf unless the invariants fail (`assert_invariants()?`).
asserted(cf) ==
    IF assert_invariants(cf.m) = "none" THEN cf
    ELSE [cf |-> "Err", m |-> cf.m, value |-> Uninit, err |-> "InvariantViolation",
          arguments |-> <<>>, pc |-> NoPc]

\* ------------------------------------------------------------ terminators
Goto(b) == [kind |-> "Goto", block |-> b, place |-> LocalVariable(1)]
Return(place) == [kind |-> "Return", block |-> 0, place |-> place]
StartAtomic(b) == [kind |-> "StartAtomic", block |-> b, place |-> LocalVariable(1)]
EndAtomic(b) == [kind |-> "EndAtomic", block |-> b, place |-> LocalVariable(1)]
If(place, if_true, if_false) ==
    [kind |-> "If", place |-> place, if_true |-> if_true, if_false |-> if_false]
\* Assign(destination, Call { function, arguments, labels }, next_block); the
\* function is a user function ("fn"), a user async function ("async fn")
\* or an intrinsic of the host ("print").
AssignCall(destination, function, arguments, next_block) ==
    [kind |-> "Call", destination |-> destination, function |-> function,
     arguments |-> arguments, place |-> LocalVariable(1), next_block |-> next_block]
\* Assign(destination, Await(thunk_place), next_block)
AssignAwait(destination, thunk_place, next_block) ==
    [kind |-> "Await", destination |-> destination, function |-> "none",
     arguments |-> <<>>, place |-> thunk_place, next_block |-> next_block]
ErrorTerminator == [kind |-> "Error", block |-> 0, place |-> LocalVariable(1)]
Panic == [kind |-> "Panic", block |-> 0, place |-> LocalVariable(1)]
\* The terminator of the block of a frame is not known before it is executed.
NoTerminator == [kind |-> "None"]
\* The BIR of the user functions and of the user async functions.
FnBir == 2
AsyncFnBir == 3

\* Uninitializes every slot of the top frame; the tenants of the values
\* dropped are revoked.
clear_frame(m) ==
    LET vars == top_frame(m).variables
        held == {vars[v].permission : v \in Locals} \ {0}
        RECURSIVE drop(_, _)
        drop(mm, ps) == IF ps = {} THEN mm
                        ELSE LET p == CHOOSE q \in ps : TRUE
                             IN drop(revoke_tenant(mm, p), ps \ {p})
    IN [drop(m, held) EXCEPT !.stack[Len(m.stack)].variables = [v \in Locals |-> Uninit]]

pop_frame(m) == [m EXCEPT !.stack = SubSeq(m.stack, 1, Len(m.stack) - 1)]

\* A new frame for the function bir; the arguments occupy the first slots.
push_frame(m, bir, arguments) ==
    [m EXCEPT !.stack = Append(m.stack,
        [pc |-> start_point(bir),
         variables |-> [v \in Locals |->
                          IF v <= Len(arguments) THEN arguments[v] ELSE Uninit],
         terminator |-> NoTerminator])]

\* The terminator of the block the top frame is in, as resume_with finds it
\* in the tables of the BIR of the frame.
at_terminator(m, terminator) ==
    [m EXCEPT !.stack[Len(m.stack)].terminator = terminator]

\* The top frame moves to the start of another block.
enter_block(m, pc) ==
    [m EXCEPT !.stack[Len(m.stack)].pc = pc,
              !.stack[Len(m.stack)].terminator = NoTerminator]

ControlFlow(cf, m, v, e) ==
    [cf |-> cf, m |-> m, value |-> v, err |-> e, arguments |-> <<>>, pc |-> NoPc]
\* ControlFlow::Done(pc, value)
Done(pc, m, v) ==
    [cf |-> "Done", m |-> m, value |-> v, err |-> "none", arguments |-> <<>>, pc |-> pc]
\* ControlFlow::Await(thunk), a thunk of the host with its arguments.
Await(m, arguments) ==
    [cf |-> "Await", m |-> m, value |-> Uninit, err |-> "none",
     arguments |-> arguments, pc |-> NoPc]
\* Ok(ControlFlow::Next), or the fault of r.
NextOr(r) ==
    IF r.err # "none" THEN ControlFlow("Err", r.m, Uninit, r.err)
    ELSE ControlFlow("Next", r.m, Uninit, "none")

\* ------------------------------------------------------------ resume_with
\* The value has been assigned to the place the frame expects it in.
resume_assigned(r, new_pc) ==
    IF r.err # "none" THEN r ELSE Ok(enter_block(r.m, new_pc), Uninit)

\* Mutant of resume_with: the value is stored but the pc stays at the
\* terminator.
resume_with_keeps_pc(m, value) ==
    assign_place(m, top_frame(m).terminator.destination, value)

\* The top frame waits at an Assign terminator for the value of a call or of
\* an await: the value is stored in the destination and the pc moves to the
\* next block.
resume_with(m, value) ==
    resume_assigned(
        assign_place(m, top_frame(m).terminator.destination, value),
        move_to_block(top_frame(m).pc, top_frame(m).terminator.next_block))

\* -------------------------------------------------------------------- call
GivenArguments(m, values, e) == [m |-> m, values |-> values, err |-> e]

\* The next argument has been given with result g.
argument_given(given, g) ==
    IF g.err # "none" THEN GivenArguments(g.m, given.values, g.err)
    ELSE GivenArguments(g.m, Append(given.values, g.val), "none")

RECURSIVE give_arguments(_, _)
\* The arguments of a call are given in order.
give_arguments(given, places) ==
    IF given.err # "none" \/ places = <<>> THEN given
    ELSE give_arguments(argument_given(given, give_place(given.m, Head(places))),
                        Tail(places))

CallResult(m, pushed, v, e) == [m |-> m, pushed |-> pushed, val |-> v, err |-> e]
\* CallResult::Returned(value), from a fallible allocation.
call_returned(r) == CallResult(r.m, FALSE, r.val, r.err)

\* A thunk object that captures the arguments, with a fresh `my` permission.
new_thunk(m, kind, arguments) ==
    with_permission(new_object(m, ThunkData(kind, arguments)), ValidPermissionData("My"))

\* The arguments have been given: an intrinsic is invoked and its result
\* returned, a user function gets a new frame.
call_given(given, terminator) ==
    IF given.err # "none" THEN CallResult(given.m, FALSE, Uninit, given.err)
    ELSE CASE terminator.function = "print" ->
                 call_returned(new_thunk(given.m, "ThunkRust", given.values))
           [] terminator.function = "async fn" ->
                 call_returned(new_thunk(given.m, "ThunkFn", given.values))
           [] terminator.function = "fn" ->
                 CallResult(push_frame(at_terminator(given.m, terminator),
                                       FnBir, given.values),
                            TRUE, Uninit, "none")

call(m, terminator) ==
    call_given(give_arguments(GivenArguments(m, <<>>, "none"), terminator.arguments),
               terminator)

\* Mutant of called: a returned value is dropped, the pc moves on.
called_drops_value(c, pc, terminator) ==
    IF c.err # "none" THEN ControlFlow("Err", c.m, Uninit, c.err)
    ELSE IF c.pushed THEN ControlFlow("Next", c.m, Uninit, "none")
    ELSE ControlFlow("Next", enter_block(c.m, move_to_block(pc, terminator.next_block)),
                     Uninit, "none")

\* The call ended with c: a returned value is assigned to the destination
\* and the pc moves to the next block.
called(c, pc, terminator) ==
    IF c.err # "none" THEN ControlFlow("Err", c.m, Uninit, c.err)
    ELSE IF c.pushed THEN ControlFlow("Next", c.m, Uninit, "none")
    ELSE NextOr(resume_assigned(assign_place(c.m, terminator.destination, c.val),
                                move_to_block(pc, terminator.next_block)))

\* ------------------------------------------------------------- await_thunk
\* The thunk has been given (g): a thunk of a user async function gets a
\* new frame, a thunk of the host goes to the caller of step.
thunk_given(g, thunk) ==
    IF g.err # "none" THEN ControlFlow("Err", g.m, Uninit, g.err)
    ELSE CASE thunk.kind = "ThunkFn" ->
                 ControlFlow("Next", push_frame(g.m, AsyncFnBir, thunk.fields),
                             Uninit, "none")
           [] thunk.kind = "ThunkRust" -> Await(g.m, thunk.fields)
           [] OTHER -> ControlFlow("Err", g.m, Uninit, "TypeMismatch")

thunk_object(m, g) == IF g.err # "none" THEN FreeObj ELSE m.objects[g.val.object]

await_given(m, g) == thunk_given(g, thunk_object(m, g))

await_thunk(m, thunk_place) == await_given(m, give_place(m, thunk_place))

\* ------------------------------------------------------------------ places
\* read_place: the object at the place.
\* The tenant of perm is revoked if it is a lease.
revoke_exclusive_tenant(m, perm) ==
    IF m.permissions[perm].tenant # 0
          /\ m.permissions[m.permissions[perm].tenant].kind = "Leased"
    THEN revoke_tenant(m, perm) ELSE m

RECURSIVE revoke_exclusive_tenants(_, _)
revoke_exclusive_tenants(m, perms) ==
    IF perms = <<>> THEN m
    ELSE revoke_exclusive_tenants(revoke_exclusive_tenant(m, Head(perms)), Tail(perms))

\* read: the object a traversal ended at is activated; the leases of the
\* permissions traversed are canceled.
read(m, t) == revoke_exclusive_tenants(m, t.traversed)

read_traversed(m, t) ==
    IF t.err # "none" THEN Err(m, t.err) ELSE Ok(read(m, t), t.value)

read_place(m, place) == read_traversed(m, traverse_to_object(m, place))

bool_of(m, r) ==
    IF r.err # "none" THEN r
    ELSE IF m.objects[r.val.object].kind = "Bool"
    THEN [r EXCEPT !.val = (m.objects[r.val.object].data = 1)]
    ELSE Err(r.m, "TypeMismatch")

eval_place_to_bool(m, place) == bool_of(m, read_place(m, place))

\* Mutant of branch: the two blocks are taken the wrong way round.
branch_swapped(m, pc, b, terminator) ==
    IF b.err # "none" THEN ControlFlow("Err", b.m, Uninit, b.err)
    ELSE ControlFlow("Next",
             set_pc(b.m, move_to_block(pc, IF b.val THEN terminator.if_false
                                           ELSE terminator.if_true)),
             Uninit, "none")

\* If: the place has been read as the boolean b.
branch(m, pc, b, terminator) ==
    IF b.err # "none" THEN ControlFlow("Err", b.m, Uninit, b.err)
    ELSE ControlFlow("Next",
             set_pc(b.m, move_to_block(pc, IF b.val THEN terminator.if_true
                                           ELSE terminator.if_false)),
             Uninit, "none")

\* ------------------------------------------------------- step_terminator
\* Mutant of frame_popped: a return to a caller is reported as Done.
frame_popped_done(m, pc, value) == Done(pc, m, value)

\* The frame has been popped: without a caller the execution is done,
\* otherwise the caller is resumed with the value.
frame_popped(m, pc, value) ==
    IF m.stack = <<>> THEN Done(pc, m, value)
    ELSE NextOr(resume_with(m, value))

\* Mutant of return_given: the frame is popped before it is cleared, so the
\* frame that is cleared is the one of the caller.
return_given_pops_first(return_value, pc) ==
    IF return_value.err # "none"
    THEN ControlFlow("Err", return_value.m, Uninit, return_value.err)
    ELSE IF Len(return_value.m.stack) = 1
    THEN frame_popped(pop_frame(gc(clear_frame(return_value.m), {return_value.val})),
                      pc, return_value.val)
    ELSE frame_popped(gc(clear_frame(pop_frame(return_value.m)), {return_value.val}),
                      pc, return_value.val)

\* Return: the value has been given; the frame is cleared, the heap
\* collected with the value as root, and the frame popped.
return_given(return_value, pc) ==
    IF return_value.err # "none"
    THEN ControlFlow("Err", return_value.m, Uninit, return_value.err)
    ELSE frame_popped(pop_frame(gc(clear_frame(return_value.m), {return_value.val})),
                      pc, return_value.val)

\* Mutant of step_terminator: the atomic terminators are not implemented
\* and fault.
step_terminator_atomics_fault(m, pc, terminator) ==
    CASE terminator.kind \in {"StartAtomic", "EndAtomic"} ->
            ControlFlow("Err", m, Uninit, "Unimplemented")
      [] terminator.kind = "Goto" ->
            ControlFlow("Next", set_pc(m, move_to_block(pc, terminator.block)), Uninit, "none")
      [] terminator.kind = "If" ->
            branch(m, pc, eval_place_to_bool(m, terminator.place), terminator)
      [] terminator.kind = "Call" -> called(call(m, terminator), pc, terminator)
      [] terminator.kind = "Await" ->
            await_thunk(at_terminator(m, terminator), terminator.place)
      [] terminator.kind = "Return" -> return_given(give_place(m, terminator.place), pc)
      [] terminator.kind = "Error" -> ControlFlow("Err", m, Uninit, "CompilationError")
      [] terminator.kind = "Panic" -> ControlFlow("Err", m, Uninit, "Panic")

\* An Await of a thunk of the host that also moves the frame on.
await_moved(cf, pc, terminator) ==
    IF cf.cf = "Await"
    THEN [cf EXCEPT !.m = enter_block(cf.m, move_to_block(pc, terminator.next_block))]
    ELSE cf

\* Mutant of step_terminator: the Assign-Await arm moves the pc to the next
\* block before the thunk of the host has run.
step_terminator_await_moves(m, pc, terminator) ==
    CASE terminator.kind \in {"Goto", "StartAtomic", "EndAtomic"} ->
            ControlFlow("Next", set_pc(m, move_to_block(pc, terminator.block)), Uninit, "none")
      [] terminator.kind = "If" ->
            branch(m, pc, eval_place_to_bool(m, terminator.place), terminator)
      [] terminator.kind = "Call" -> called(call(m, terminator), pc, terminator)
      [] terminator.kind = "Await" ->
            await_moved(await_thunk(at_terminator(m, terminator), terminator.place),
                        pc, terminator)
      [] terminator.kind = "Return" -> return_given(give_place(m, terminator.place), pc)
      [] terminator.kind = "Error" -> ControlFlow("Err", m, Uninit, "CompilationError")
      [] terminator.kind = "Panic" -> ControlFlow("Err", m, Uninit, "Panic")

step_terminator(m, pc, terminator) ==
    CASE terminator.kind \in {"Goto", "StartAtomic", "EndAtomic"} ->
            ControlFlow("Next", set_pc(m, move_to_block(pc, terminator.block)), Uninit, "none")
      [] terminator.kind = "If" ->
            branch(m, pc, eval_place_to_bool(m, terminator.place), terminator)
      [] terminator.kind = "Call" -> called(call(m, terminator), pc, terminator)
      [] terminator.kind = "Await" ->
            await_thunk(at_terminator(m, terminator), terminator.place)
      [] terminator.kind = "Return" -> return_given(give_place(m, terminator.place), pc)
      [] terminator.kind = "Error" -> ControlFlow("Err", m, Uninit, "CompilationError")
      [] terminator.kind = "Panic" -> ControlFlow("Err", m, Uninit, "Panic")

\* ------------------------------------------------------------------- step
\* Mutant of statement_stepped: the step ends without a sweep.
statement_stepped_unswept(pc, r) ==
    IF r.err # "none" THEN ControlFlow("Err", r.m, Uninit, r.err)
    ELSE asserted(ControlFlow("Next",
             set_pc(r.m, [pc EXCEPT !.statement = pc.statement + 1]),
             Uninit, "none"))

\* Mutant of statement_stepped: the pc skips a statement.
statement_stepped_skips(pc, r) ==
    IF r.err # "none" THEN ControlFlow("Err", r.m, Uninit, r.err)
    ELSE asserted(ControlFlow("Next",
             gc(set_pc(r.m, [pc EXCEPT !.statement = pc.statement + 2]), {}),
             Uninit, "none"))

\* The statement has been executed with result r: advance the pc, gc,
\* assert_invariants.
statement_stepped(pc, r) ==
    IF r.err # "none" THEN ControlFlow("Err", r.m, Uninit, r.err)
    ELSE asserted(ControlFlow("Next",
             gc(set_pc(r.m, [pc EXCEPT !.statement = pc.statement + 1]), {}),
             Uninit, "none"))

\* Mutant of step_at_statement: the fault of the statement is not
\* propagated and the step goes on.
step_at_statement_goes_on(m, statement) ==
    statement_stepped(top_frame(m).pc,
                      [step_statement(m, statement) EXCEPT !.err = "none"])

\* step() at a statement.
step_at_statement(m, statement) ==
    statement_stepped(top_frame(m).pc, step_statement(m, statement))

\* Mutant of step_at_terminator: the value of Done is not a root of the gc.
terminator_stepped_no_roots(cf) ==
    IF cf.cf = "Err" THEN cf ELSE [cf EXCEPT !.m = gc(cf.m, {})]

step_at_terminator_no_roots(m, terminator) ==
    terminator_stepped_no_roots(step_terminator(m, top_frame(m).pc, terminator))

\* Mutant of step_at_terminator: the arguments of the thunk of Await are not
\* roots of the gc.
terminator_stepped_value_root(cf) ==
    IF cf.cf = "Err" THEN cf ELSE [cf EXCEPT !.m = gc(cf.m, {cf.value})]

step_at_terminator_value_root(m, terminator) ==
    terminator_stepped_value_root(step_terminator(m, top_frame(m).pc, terminator))

\* The machine with the canceled flag of every permission cleared.
revived(m) ==
    [m EXCEPT !.permissions = [p \in 1..Len(m.permissions) |->
                                  [m.permissions[p] EXCEPT !.canceled = FALSE]]]

\* Mutant of terminator_stepped: the sweep at a terminator makes the
\* canceled permissions it keeps usable again.
terminator_stepped_revives(cf) ==
    IF cf.cf = "Err" THEN cf
    ELSE asserted([cf EXCEPT !.m = revived(gc(cf.m, {cf.value} \cup Range(cf.arguments)))])

\* The terminator has been executed with control flow cf: gc with the
\* value of cf as root, assert_invariants.
terminator_stepped(cf) ==
    IF cf.cf = "Err" THEN cf
    ELSE asserted([cf EXCEPT !.m = gc(cf.m, {cf.value} \cup Range(cf.arguments))])

\* step() at the terminator of the block.
step_at_terminator(m, terminator) ==
    terminator_stepped(step_terminator(m, top_frame(m).pc, terminator))

\* ------------------------------------------------------------ state machine
\* machine: the machine the stepper drives; result: what the last call of
\* step or awaken returned; last: the kind of statement or terminator it
\* executed; kernel: the kernel handle of the stepper (Option); running: the
\* kernel callback that is running, if any.
VARIABLES machine, result, last, kernel, running

\* The state of a rendering of heap graphs (heap_graph/graphviz.rs): the
\* snapshots under rendering and the GraphvizWriter.  The stepper leaves
\* both alone.
VARIABLES heap_graph, writer

\* The BIR whose control points are computed (BirData::control_points) and
\* the set returned.  The stepper and the renderer leave both alone.
VARIABLES bir_data, points

vars == <<machine, result, last, kernel, running, heap_graph, writer,
          bir_data, points>>

\* No BIR is under analysis.
NoBirData == [control_points |-> <<>>, start_point |-> 0]

\* No rendering is under way.
NoHeapGraph == [start |-> <<>>, end |-> <<>>]
NoWriter == [at |-> "none"]

\* The expressions of the programs explored; a tuple is built as (a, a).
Exprs == {IntegerLiteral(22), ErrorExpr}
           \cup {GiveShare(p) : p \in Places}
           \cup {Lease(p) : p \in Places}
           \cup {Give(p) : p \in Places}
           \cup {Tuple(<<LocalVariable(a), LocalVariable(a)>>) : a \in Locals}
Statements == {Assign(t, e) : t \in TargetPlaces, e \in Exprs}
Terminators == {Goto(b) : b \in Blocks} \cup {Return(LocalVariable(v)) : v \in Locals}

Init ==
    /\ machine = [stack |-> <<[pc |-> ProgramCounter(1, 0),
                               variables |-> [v \in Locals |-> Uninit],
                               terminator |-> NoTerminator]>>,
                  objects |-> <<>>,
                  permissions |-> <<>>]
    /\ result = [cf |-> "Next", value |-> Uninit, err |-> "none",
                 arguments |-> <<>>, pc |-> NoPc]
    /\ last = "None"
    /\ kernel = "Some"
    /\ running = "none"
    /\ heap_graph = NoHeapGraph
    /\ writer = NoWriter
    /\ bir_data = NoBirData
    /\ points = {}

Fits(m) == Len(m.permissions) <= MaxPerm /\ Len(m.objects) <= MaxObj

AtStatement ==
    /\ machine.stack # <<>>
    /\ top_frame(machine).pc.statement
          < BlockStatements[top_frame(machine).pc.basic_block]

AtTerminator ==
    /\ machine.stack # <<>>
    /\ top_frame(machine).pc.statement
          = BlockStatements[top_frame(machine).pc.basic_block]

\* The step returned cf: the machine and the result the caller sees.
Returned(cf, kind) ==
    /\ Fits(cf.m)
    /\ machine' = cf.m
    /\ result' = [cf |-> cf.cf, value |-> cf.value, err |-> cf.err,
                  arguments |-> cf.arguments, pc |-> cf.pc]
    /\ last' = kind
    /\ UNCHANGED <<heap_graph, writer, bir_data, points>>

StepStatement ==
    /\ result.cf = "Next"
    /\ AtStatement
    /\ \E s \in Statements : Returned(step_at_statement(machine, s), s.kind)
    /\ UNCHANGED <<kernel, running>>

StepTerminator ==
    /\ result.cf = "Next"
    /\ AtTerminator
    /\ \E t \in Terminators : Returned(step_at_terminator(machine, t), t.kind)
    /\ UNCHANGED <<kernel, running>>

Next == StepStatement \/ StepTerminator

Spec == Init /\ [][Next]_vars

\* ------------------------------------------- calls, awaits and breakpoints
\* A second specification: programs with calls, awaits, branches and
\* breakpoints, over small heaps.
FramePerms == 5
FrameObjs == 4

\* The data of a boolean is 1 (true) or 0 (false).
FrameExprs == {BooleanLiteral(1), BooleanLiteral(0),
               Tuple(<<LocalVariable(2), LocalVariable(2)>>),
               Lease(LocalVariable(1))}
FrameStatements == {Assign(TargetLocal(v), e) : v \in Locals, e \in FrameExprs}
FrameCalls == {AssignCall(TargetLocal(3), f, <<LocalVariable(2)>>, 2)
                  : f \in {"fn", "async fn", "print"}}
FrameTerminators ==
    {Goto(2), StartAtomic(2), EndAtomic(2), ErrorTerminator, Panic,
     If(LocalVariable(3), 1, 2),
     AssignAwait(TargetLocal(2), LocalVariable(3), 1),
     Return(LocalVariable(1)), Return(LocalVariable(3))}
      \cup FrameCalls
Breakpoints == {"BreakpointStart", "BreakpointEnd"}

FitsFrames(m) ==
    /\ Len(m.permissions) <= FramePerms
    /\ Len(m.objects) <= FrameObjs
    /\ Len(m.stack) <= MaxFrames

\* The step returned cf.
ReturnedFrames(cf, kind) ==
    /\ FitsFrames(cf.m)
    /\ machine' = cf.m
    /\ result' = [cf |-> cf.cf, value |-> cf.value, err |-> cf.err,
                  arguments |-> cf.arguments, pc |-> cf.pc]
    /\ last' = kind
    /\ UNCHANGED <<heap_graph, writer, bir_data, points>>

\* step() at an Assign statement.
FrameStatement ==
    /\ result.cf = "Next" /\ running = "none"
    /\ AtStatement
    /\ \E s \in FrameStatements : ReturnedFrames(step_at_statement(machine, s), s.kind)
    /\ UNCHANGED <<kernel, running>>

\* step() at a terminator.
FrameTerminator ==
    /\ result.cf = "Next" /\ running = "none"
    /\ AtTerminator
    /\ \E t \in FrameTerminators : ReturnedFrames(step_at_terminator(machine, t), t.kind)
    /\ UNCHANGED <<kernel, running>>

\* self.kernel.take(): the handle taken and what is left in the stepper.
take(k) == [taken |-> k, left |-> "None"]

\* step() at a breakpoint statement takes the kernel out of the stepper
\* (`self.kernel.take().unwrap()`) and calls it back.
BreakpointCall ==
    /\ result.cf = "Next" /\ running = "none"
    /\ AtStatement
    /\ take(kernel).taken = "Some"
    /\ kernel' = take(kernel).left
    /\ \E b \in Breakpoints : running' = b /\ last' = b
    /\ UNCHANGED <<machine, result, heap_graph, writer, bir_data, points>>

\* Mutant of kernel_restored: a failure of the callback returns before the
\* handle is put back.
kernel_restored_on_success(r) == IF r.err = "none" THEN "Some" ELSE "None"

\* `self.kernel = Some(kernel)`, whatever the callback returned.
kernel_restored(r) == "Some"

\* The result of the callback: Ok, or the failure of the host.
callback_result(m, ok) == IF ok THEN Ok(m, Uninit) ELSE Err(m, "HostError")

\* Mutant of in_flight_value: the in-flight place is given, not peeked.
in_flight_value_gives(m, in_flight_place) ==
    IF in_flight_place = <<>> THEN m ELSE give_place(m, in_flight_place[1]).m

\* `try { self.peek_place(table, (*in_flight_place)?)? }`: the machine after
\* the in-flight place (an Option, here a sequence of at most one place) has
\* been peeked.
in_flight_value(m, in_flight_place) ==
    IF in_flight_place = <<>> THEN m ELSE peek_place(m, in_flight_place[1]).m

\* The producer of the snapshot the kernel is called with: the in-flight
\* value is peeked and HeapGraph::new reads the machine.
producer(m, in_flight_place) == in_flight_value(m, in_flight_place)

\* breakpoint_start and breakpoint_end: the kernel invokes the producer or
\* not, and returns Ok or a failure.
breakpoint_callback(m, ok, invoked, in_flight_place) ==
    callback_result(IF invoked THEN producer(m, in_flight_place) ELSE m, ok)

\* The in-flight places of the breakpoints explored: BreakpointStart has
\* none, BreakpointEnd has an optional place.
InFlightPlaces(b) ==
    IF b = "BreakpointStart" THEN {<<>>}
    ELSE {<<>>} \cup {<<LocalVariable(v)>> : v \in Locals}

\* The callback returns: the stepper takes the kernel back, and then
\* propagates the result (`result?`); the step ends as for any statement.
BreakpointReturn ==
    /\ running # "none"
    /\ \E ok \in BOOLEAN, invoked \in BOOLEAN, place \in InFlightPlaces(running) :
          /\ kernel' = kernel_restored(breakpoint_callback(machine, ok, invoked, place))
          /\ ReturnedFrames(statement_stepped(top_frame(machine).pc,
                               breakpoint_callback(machine, ok, invoked, place)),
                            running)
    /\ running' = "none"

\* Mutant of awaken: the frame moves on without the value.
awaken_drops_value(m, value) ==
    Ok(enter_block(m, move_to_block(top_frame(m).pc,
                                    top_frame(m).terminator.next_block)), Uninit)

\* awaken(value) is resume_with(value).
awaken(m, value) == resume_with(m, value)

\* The value the host produced for the thunk: unit.
host_value(m) == literal(m, ObjectData("Unit", 0))

awaken_with(v) == NextOr(awaken(v.m, v.val))

\* After step returned Await the driver invokes the thunk and calls awaken
\* with its value.
Awaken ==
    /\ result.cf = "Await"
    /\ ReturnedFrames(awaken_with(host_value(machine)), "Awaken")
    /\ UNCHANGED <<kernel, running>>

FrameNext ==
    \/ FrameStatement
    \/ FrameTerminator
    \/ BreakpointCall
    \/ BreakpointReturn
    \/ Awaken

FrameSpec == Init /\ [][FrameNext]_vars

\* -------------------------------------------------------------- operators
\* A third specification: programs of one frame with integers, pairs of
\* integers, leases and additions.
OpPerms == 4
OpObjs == 3

OpExprs == {IntegerLiteral(22),
            StringLiteral(119),
            Tuple(<<LocalVariable(1), LocalVariable(1)>>),
            Tuple(<<LocalVariable(1)>>),
            Lease(LocalVariable(2)),
            GiveShare(Dot(LocalVariable(2), 1)),
            Op(LocalVariable(1), Plus, LocalVariable(1)),
            Op(LocalVariable(2), Plus, LocalVariable(1)),
            Op(Dot(LocalVariable(2), 1), Plus, Dot(LocalVariable(2), 2))}
OpStatements == {Assign(TargetLocal(v), e) : v \in Locals, e \in OpExprs}
OpTerminators == {Goto(1), Return(LocalVariable(1))}

FitsOps(m) == Len(m.permissions) <= OpPerms /\ Len(m.objects) <= OpObjs

\* The step returned cf.
ReturnedOps(cf, kind) ==
    /\ FitsOps(cf.m)
    /\ machine' = cf.m
    /\ result' = [cf |-> cf.cf, value |-> cf.value, err |-> cf.err,
                  arguments |-> cf.arguments, pc |-> cf.pc]
    /\ last' = kind
    /\ UNCHANGED <<heap_graph, writer, bir_data, points>>

\* step() at an Assign statement.
OpStatement ==
    /\ result.cf = "Next"
    /\ AtStatement
    /\ \E s \in OpStatements : ReturnedOps(step_at_statement(machine, s), s.kind)
    /\ UNCHANGED <<kernel, running>>

\* step() at a terminator.
OpTerminator ==
    /\ result.cf = "Next"
    /\ AtTerminator
    /\ \E t \in OpTerminators : ReturnedOps(step_at_terminator(machine, t), t.kind)
    /\ UNCHANGED <<kernel, running>>

OpNext == OpStatement \/ OpTerminator

OpSpec == Init /\ [][OpNext]_vars

\* --------------------------------------------------------------- heap graph
\* A snapshot (HeapGraph): the stack of frames and the tables of objects,
\* data, permissions, classes and functions the value edges point into.
ObjectTarget(o) == [kind |-> "Object", index |-> o]
ClassTarget(c) == [kind |-> "Class", index |-> c]
FunctionTarget(f) == [kind |-> "Function", index |-> f]
DataTarget(d) == [kind |-> "Data", index |-> d]
ValueEdge(permission, target) == [permission |-> permission, target |-> target]

\* A variable of a frame: name is an Option, a sequence of at most one word.
LocalVariableEdge(id, name, value) == [id |-> id, name |-> name, value |-> value]
StackFrameNodeData(function, variables, in_flight) ==
    [function |-> function, variables |-> variables,
     in_flight_value |-> in_flight]
\* An object: its class, the names of the fields of the class, its fields.
ObjectNodeData(class, field_names, fields) ==
    [class |-> class, field_names |-> field_names, fields |-> fields]
PermissionNodeData(label, has_tenant) == [label |-> label, tenant |-> has_tenant]

\* ----------------------------------------------------------- GraphvizWriter
\* A place of the output: the name of a node and the port of a row.
GraphvizPlace(node, port) == [node |-> node, port |-> port]
GraphvizValueEdge(source, target, permission) ==
    [source |-> source, target |-> target, permission |-> permission]

\* The name of a node, `{np}stack` or `{np}node{index}`, kept in its parts.
NodeName(np, base, index) == [prefix |-> np, base |-> base, index |-> index]
NoName == NodeName("", "", 0)

\* A line of the output.  The lines whose text is fixed carry it in text; the
\* formatted lines carry the values formatted into them.  Indentation is
\* left out.
BlankLine == [kind |-> "text", node |-> NoName, port |-> 0, text |-> "",
              data |-> <<>>, target |-> NoName, label |-> "", style |-> ""]
TextLine(text) == [BlankLine EXCEPT !.text = text]
\* `subgraph cluster_{np}stack {`
ClusterLine(node) == [BlankLine EXCEPT !.kind = "cluster", !.node = node]
\* `{name} [` or `{name}[`
NodeLine(node) == [BlankLine EXCEPT !.kind = "node", !.node = node]
\* `<tr><td border="1">{name}</td></tr>`
HeaderLine(name) == [BlankLine EXCEPT !.kind = "header", !.text = name]
\* `<tr><td port="{index}">{name}</td></tr>`
RowLine(index, name) == [BlankLine EXCEPT !.kind = "row", !.port = index, !.text = name]
\* `<tr><td port="{index}">{name}: {data_str}</td></tr>`
DataRowLine(index, name, data) ==
    [BlankLine EXCEPT !.kind = "data row", !.port = index, !.text = name, !.data = data]
\* `label = <<b>{name}</b>>`
LabelLine(name) == [BlankLine EXCEPT !.kind = "label", !.text = name]
\* `label = {data_str:?}`
DataLabelLine(data) == [BlankLine EXCEPT !.kind = "data label", !.data = data]
\* `{source}:{source_port} -> {target} [label={label}, style={style}];`
EdgeLine(source, target, label, style) ==
    [BlankLine EXCEPT !.kind = "edge", !.node = source.node, !.port = source.port,
                      !.target = target, !.label = label, !.style = style]

\* The writer graphviz_alone and graphviz_paired start with.
GraphvizWriter(include_temporaries) ==
    [at |-> "start", name_prefix |-> "", include_temporaries |-> include_temporaries,
     node_queue |-> <<>>, node_set |-> <<>>, permissions |-> <<>>,
     value_edge_list |-> <<>>, output |-> <<>>]

name_prefix(w, prefix) == [w EXCEPT !.name_prefix = prefix]
println(w, line) == [w EXCEPT !.output = Append(@, line)]
indent(w, line) == println(w, line)
undent(w, line) == println(w, line)
\* Several calls of println, indent and undent in a row.
printlns(w, lines) == [w EXCEPT !.output = @ \o lines]

\* IndexSet::insert_full: the index of the target in the set (from 0), the
\* one it gets if it is new.
index_of(node_set, target) ==
    IF \E i \in 1..Len(node_set) : node_set[i] = target
    THEN (CHOOSE i \in 1..Len(node_set) : node_set[i] = target) - 1
    ELSE Len(node_set)
is_new(node_set, target) == \A i \in 1..Len(node_set) : node_set[i] # target

\* node_name: a target seen for the first time joins the set and the queue;
\* the name is made of the prefix of the moment and the index in the set.
node_name(w, target) ==
    [w |-> IF is_new(w.node_set, target)
           THEN [w EXCEPT !.node_set = Append(@, target),
                          !.node_queue = Append(@, target)]
           ELSE w,
     name |-> NodeName(w.name_prefix, "node", index_of(w.node_set, target))]

value_edge_pushed(named, source, source_port, permission) ==
    [named.w EXCEPT !.value_edge_list =
        Append(@, GraphvizValueEdge(GraphvizPlace(source, source_port),
                                    named.name, permission))]

push_value_edge(w, source, source_port, edge, permission) ==
    value_edge_pushed(node_name(w, edge.target), source, source_port, permission)

\* ------------------------------------------------------------------ labels
\* Strings of data are sequences of ASCII codes.
\* html_escape::encode_text: & < > become &amp; &lt; &gt;.
encode_char(c) ==
    CASE c = 38 -> <<38, 97, 109, 112, 59>>
      [] c = 60 -> <<38, 108, 116, 59>>
      [] c = 62 -> <<38, 103, 116, 59>>
      [] OTHER -> <<c>>

\* Every character is encoded and the encodings are concatenated, one half
\* of the string after the other.
RECURSIVE encode_text(_)
encode_text(s) ==
    IF s = <<>> THEN <<>>
    ELSE IF Len(s) = 1 THEN encode_char(s[1])
    ELSE encode_text(SubSeq(s, 1, Len(s) \div 2))
           \o encode_text(SubSeq(s, (Len(s) \div 2) + 1, Len(s)))

\* `if data.len() < 40 { data } else { format!("{}[...]{}", &data[0..20],
\* &data[len..]) }` with len = data.len() - 20.
elided(data) ==
    IF Len(data) < 40 THEN data
    ELSE SubSeq(data, 1, 20) \o <<91, 46, 46, 46, 93>>
           \o SubSeq(data, (Len(data) - 20) + 1, Len(data))

data_str(g, d) == elided(encode_text(g.datas[d].debug))

\* ---------------------------------------------------------------- renderer
\* `w.permissions.entry(permission).or_insert(vec![]).push(place)`: the map
\* is kept as the sequence of its insertions.
place_recorded(w, permission, place) ==
    [w EXCEPT !.permissions = Append(@, [permission |-> permission, place |-> place])]

\* The row of a field with a name: data is written in the row, any other
\* target gets a row and an edge.
print_named_field(g, w, edge, name, source, index) ==
    IF edge.target.kind = "Data"
    THEN println(w, DataRowLine(index, name, data_str(g, edge.target.index)))
    ELSE push_value_edge(println(w, RowLine(index, name)), source, index,
                         edge, edge.permission)

\* print_field: a field without a name prints nothing.
print_field(g, w, edge, name, source, index) ==
    IF name = <<>> THEN w
    ELSE print_named_field(g, place_recorded(w, edge.permission,
                                               GraphvizPlace(source, index)),
                           edge, name[1], source, index)

\* print_fields: the edges zipped with the names, the index counting every
\* pair; returns the writer and the next index.
RECURSIVE print_fields(_, _, _, _, _, _)
print_fields(g, w, source, names, edges, index) ==
    IF names = <<>> \/ edges = <<>> THEN [w |-> w, index |-> index]
    ELSE print_fields(g, print_field(g, w, Head(edges), Head(names), source, index),
                      source, Tail(names), Tail(edges), index + 1)

\* `format!("{:?}", v.id)`
temporary_name(id) == "LocalVariable(" \o ToString(id) \o ")"

\* Mutant of variable_name: temporaries are named whatever the flag.
variable_name_always(include_temporaries, v) ==
    IF v.name # <<>> THEN v.name ELSE <<temporary_name(v.id)>>

\* The name a variable is printed with, if any.
variable_name(include_temporaries, v) ==
    IF v.name # <<>> THEN v.name
    ELSE IF include_temporaries THEN <<temporary_name(v.id)>>
    ELSE <<>>

names(include_temporaries, variables) ==
    [i \in 1..Len(variables) |-> variable_name(include_temporaries, variables[i])]

values(variables) == [i \in 1..Len(variables) |-> variables[i].value]

\* The in-flight value of a frame is printed with the source "stack".
in_flight_printed(g, printed, in_flight) ==
    IF in_flight = <<>> THEN printed
    ELSE [w |-> print_field(g, printed.w, in_flight[1], <<"(in-flight)">>,
                            NodeName("", "stack", 0), printed.index),
          index |-> printed.index + 1]

\* One frame of the stack: its header, its variables, its in-flight value.
print_frame(g, w, stack_node_name, frame, field_index) ==
    in_flight_printed(g,
        print_fields(g, println(w, HeaderLine(frame.function)), stack_node_name,
                     names(w.include_temporaries, frame.variables),
                     values(frame.variables), field_index),
        frame.in_flight_value)

RECURSIVE print_frames(_, _, _, _)
print_frames(g, printed, stack_node_name, frames) ==
    IF frames = <<>> THEN printed.w
    ELSE print_frames(g, print_frame(g, printed.w, stack_node_name, Head(frames),
                                     printed.index),
                      stack_node_name, Tail(frames))

stack_opened(w, np) ==
    printlns(w, <<ClusterLine(NodeName(np, "stack", 0)),
                  TextLine("label=<<b>stack</b>>"),
                  TextLine("rank=\"source\";"),
                  NodeLine(NodeName(np, "stack", 0)),
                  TextLine("shape=\"none\";"),
                  TextLine("label=<"),
                  TextLine("<table border=\"0\">")>>)

stack_closed(w) ==
    printlns(w, <<TextLine("</table>"), TextLine(">;"), TextLine("];"), TextLine("}")>>)

print_stack(g, w) ==
    stack_closed(print_frames(g, [w |-> stack_opened(w, w.name_prefix), index |-> 0],
                              NodeName(w.name_prefix, "stack", 0), g.stack))

\* The body of a heap node.
print_object(g, w, name, data) ==
    undent(print_fields(g, printlns(w, <<TextLine("label = <<table border=\"0\">"),
                                        HeaderLine(data.class)>>),
                        name, [i \in 1..Len(data.field_names) |-> <<data.field_names[i]>>],
                        data.fields, 0).w,
           TextLine("</table>>"))

print_node_body(g, w, name, edge) ==
    CASE edge.kind = "Object" -> print_object(g, w, name, g.objects[edge.index])
      [] edge.kind = "Class" -> println(w, LabelLine(g.classes[edge.index]))
      [] edge.kind = "Function" -> println(w, LabelLine(g.functions[edge.index] \o "()"))
      [] OTHER -> println(w, DataLabelLine(data_str(g, edge.index)))

node_opened(g, named, edge) ==
    undent(print_node_body(g, indent(named.w, NodeLine(named.name)), named.name, edge),
           TextLine("];"))

print_heap_node(g, w, edge) == node_opened(g, node_name(w, edge), edge)

\* Mutant of popped: the pop empties the queue.
popped_all(w) == [w EXCEPT !.node_queue = <<>>]

\* `w.node_queue.pop()` takes the last target of the queue.
popped(w) == [w EXCEPT !.node_queue = SubSeq(@, 1, Len(@) - 1)]

\* One turn of the loop of print_heap: the last target of the queue is
\* taken and printed.
print_heap_turn(g, w) ==
    print_heap_node(g, popped(w), w.node_queue[Len(w.node_queue)])

style(permission_data) == IF permission_data.tenant THEN "dotted" ELSE "solid"

RECURSIVE print_value_edges(_, _, _)
print_value_edges(g, w, value_edge_list) ==
    IF value_edge_list = <<>> THEN w
    ELSE print_value_edges(g,
            println(w, EdgeLine(Head(value_edge_list).source,
                                Head(value_edge_list).target,
                                g.permissions[Head(value_edge_list).permission].label,
                                style(g.permissions[Head(value_edge_list).permission]))),
            Tail(value_edge_list))

\* The end of stack_and_heap: the edges collected are taken out of the
\* writer and printed.
value_edges_taken(g, w) ==
    print_value_edges(g, [w EXCEPT !.value_edge_list = <<>>], w.value_edge_list)

\* to_graphviz: the lines before and after the contents.
digraph_opened(w) ==
    printlns(w, <<TextLine("digraph {"), TextLine("node[shape = \"note\"];"),
                  TextLine("rankdir = \"LR\";")>>)

digraph_closed(w) == [undent(w, TextLine("}")) EXCEPT !.at = "done"]

\* graphviz_paired: the prefix is set and a cluster is opened.
cluster_opened(w, prefix) ==
    [printlns(name_prefix(w, prefix),
              <<TextLine("subgraph cluster_" \o prefix \o " {"),
                TextLine("label=<<b>" \o prefix \o "</b>>")>>)
       EXCEPT !.at = "stack"]

cluster_closed(w) == undent(w, TextLine("}"))

\* ------------------------------------------------------------- renderings
\* A fourth specification: renderings of small snapshots.
\* The longest string of data.
MaxLabel == 44

\* The i-th character of the strings explored: A..Z, then a..z.
Char(i) == IF i <= 26 THEN 64 + i ELSE 70 + i
Str(n) == [i \in 1..n |-> Char(i)]
\* The string of n characters with the character c at position k.
StrWith(n, k, c) == [Str(n) EXCEPT ![k] = c]
DataStrings == {Str(n) : n \in 1..MaxLabel}
                 \cup {StrWith(n, 1, 60) : n \in 1..MaxLabel}
                 \cup {StrWith(n, n, 38) : n \in 1..MaxLabel}

\* A snapshot of one frame of two variables, two objects of one field each,
\* one data, one class and one function.  The first permission has a tenant.
Snapshot(field1, field2, variable1, variable2, in_flight, debug) ==
    [stack |-> <<StackFrameNodeData("main", <<variable1, variable2>>, in_flight)>>,
     objects |-> <<ObjectNodeData("Point", <<"x">>, <<ValueEdge(2, field1)>>),
                   ObjectNodeData("Point", <<"x">>, <<ValueEdge(1, field2)>>)>>,
     datas |-> <<[debug |-> debug]>>,
     permissions |-> <<PermissionNodeData("my", TRUE), PermissionNodeData("our", FALSE)>>,
     classes |-> <<"Point">>,
     functions |-> <<"helper">>]

Variables1 == {LocalVariableEdge(0, name, ValueEdge(1, target)) :
                  name \in {<<"p">>, <<>>},
                  target \in {ObjectTarget(1), DataTarget(1)}}
Variables2 == {LocalVariableEdge(1, name, ValueEdge(2, target)) :
                  name \in {<<"q">>, <<>>},
                  target \in {ObjectTarget(1), ObjectTarget(2),
                              FunctionTarget(1), ClassTarget(1)}}
InFlightValues == {<<>>, <<ValueEdge(2, ObjectTarget(2))>>, <<ValueEdge(2, DataTarget(1))>>}

HeapSnapshots ==
    {Snapshot(field1, field2, variable1, variable2, in_flight, Str(2)) :
        field1 \in {ObjectTarget(1), ObjectTarget(2), DataTarget(1)},
        field2 \in {ObjectTarget(1), DataTarget(1)},
        variable1 \in Variables1, variable2 \in Variables2,
        in_flight \in InFlightValues}

\* Snapshots of one variable that holds a string.
DataSnapshots ==
    {Snapshot(DataTarget(1), DataTarget(1),
              LocalVariableEdge(0, <<"p">>, ValueEdge(1, DataTarget(1))),
              LocalVariableEdge(1, <<>>, ValueEdge(2, DataTarget(1))),
              <<>>, debug) : debug \in DataStrings}

Snapshots == HeapSnapshots \cup DataSnapshots

\* The snapshot at the start of a breakpoint has no in-flight value.
at_start(g) == [g EXCEPT !.stack[1].in_flight_value = <<>>]

RenderInit ==
    /\ machine = [stack |-> <<[pc |-> ProgramCounter(1, 0),
                               variables |-> [v \in Locals |-> Uninit],
                               terminator |-> NoTerminator]>>,
                  objects |-> <<>>,
                  permissions |-> <<>>]
    /\ result = [cf |-> "Next", value |-> Uninit, err |-> "none",
                 arguments |-> <<>>, pc |-> NoPc]
    /\ last = "None"
    /\ kernel = "Some"
    /\ running = "none"
    /\ \E g \in Snapshots, start \in BOOLEAN :
          heap_graph = [start |-> IF start THEN at_start(g) ELSE g, end |-> g]
    /\ \E include_temporaries \in BOOLEAN : writer = GraphvizWriter(include_temporaries)
    /\ bir_data = NoBirData
    /\ points = {}

\* The snapshot under rendering: graphviz_paired renders heap_graph_end in
\* the cluster "after" and self in the cluster "before".
rendered(hg, function, w) ==
    IF function = "graphviz_paired" /\ w.name_prefix = "after" THEN hg.end ELSE hg.start

\* heap_graph.start.graphviz_alone(db, include_temporaries) is entered.
RenderAlone ==
    /\ writer.at = "start"
    /\ writer' = [digraph_opened(writer) EXCEPT !.at = "stack"]
    /\ last' = "graphviz_alone"
    /\ UNCHANGED <<machine, result, kernel, running, heap_graph, bir_data, points>>

\* heap_graph.start.graphviz_paired(db, include_temporaries, heap_graph.end)
\* is entered.
RenderPaired ==
    /\ writer.at = "start"
    /\ writer' = cluster_opened(digraph_opened(writer), "after")
    /\ last' = "graphviz_paired"
    /\ UNCHANGED <<machine, result, kernel, running, heap_graph, bir_data, points>>

\* stack_and_heap: `self.print_stack(w)?`
PrintStack ==
    /\ writer.at = "stack"
    /\ writer' = [print_stack(rendered(heap_graph, last, writer), writer)
                    EXCEPT !.at = "heap"]
    /\ UNCHANGED <<machine, result, last, kernel, running, heap_graph,
                   bir_data, points>>

\* print_heap: one turn of `while let Some(edge) = w.node_queue.pop()`.
PrintHeapNode ==
    /\ writer.at = "heap"
    /\ writer.node_queue # <<>>
    /\ writer' = print_heap_turn(rendered(heap_graph, last, writer), writer)
    /\ UNCHANGED <<machine, result, last, kernel, running, heap_graph,
                   bir_data, points>>

\* The queue is empty: stack_and_heap prints the edges, and the function
\* that called it goes on: graphviz_alone closes the graph; graphviz_paired
\* closes the cluster and opens the cluster "before", or closes the graph.
stack_and_heap_ended(function, w) ==
    IF function = "graphviz_alone" THEN digraph_closed(w)
    ELSE IF w.name_prefix = "after" THEN cluster_opened(cluster_closed(w), "before")
    ELSE digraph_closed(cluster_closed(w))

PrintValueEdges ==
    /\ writer.at = "heap"
    /\ writer.node_queue = <<>>
    /\ writer' = stack_and_heap_ended(last,
                      value_edges_taken(rendered(heap_graph, last, writer), writer))
    /\ UNCHANGED <<machine, result, last, kernel, running, heap_graph,
                   bir_data, points>>

RenderNext ==
    \/ RenderAlone
    \/ RenderPaired
    \/ PrintStack
    \/ PrintHeapNode
    \/ PrintValueEdges

RenderSpec == RenderInit /\ [][RenderNext]_vars

\* --------------------------------------------------------- control points
\* The control-flow graph of a BIR (bir.rs): the table of its control
\* points, each a statement with its next point or a terminator whose
\* blocks are control points, and the start point.
StatementData(action, next) == [kind |-> "Statement", action |-> action, next |-> next]
BirData(table, start) == [control_points |-> table, start_point |-> start]

\* Mutant of terminator_successors: If has its first successor only.
terminator_successors_if_true(t) ==
    CASE t.kind = "Goto" -> <<t.block>>
      [] t.kind = "If" -> <<t.if_true>>
      [] t.kind = "StartAtomic" -> <<t.block>>
      [] t.kind = "EndAtomic" -> <<t.block>>
      [] t.kind = "Return" -> <<>>
      [] t.kind \in {"Call", "Await"} -> <<t.next_block>>
      [] OTHER -> <<>>

\* TerminatorData::successors
terminator_successors(t) ==
    CASE t.kind = "Goto" -> <<t.block>>
      [] t.kind = "If" -> <<t.if_true, t.if_false>>
      [] t.kind = "StartAtomic" -> <<t.block>>
      [] t.kind = "EndAtomic" -> <<t.block>>
      [] t.kind = "Return" -> <<>>
      [] t.kind \in {"Call", "Await"} -> <<t.next_block>>
      [] OTHER -> <<>>

\* ControlPoint::successors
successors(bir, p) ==
    IF bir.control_points[p].kind = "Statement" THEN <<bir.control_points[p].next>>
    ELSE terminator_successors(bir.control_points[p])

\* The loop of control_points: the last point of the stack is popped; if it
\* is new in the set its successors are pushed.
RECURSIVE control_points_from(_, _, _)
control_points_from(bir, visited, stack) ==
    IF stack = <<>> THEN visited
    ELSE IF stack[Len(stack)] \in visited
    THEN control_points_from(bir, visited, SubSeq(stack, 1, Len(stack) - 1))
    ELSE control_points_from(bir, visited \cup {stack[Len(stack)]},
                             SubSeq(stack, 1, Len(stack) - 1)
                               \o successors(bir, stack[Len(stack)]))

\* BirData::control_points
control_points(bir) == control_points_from(bir, {}, <<bir.start_point>>)

\* A fifth specification: the control points of small graphs.
\* Number of control points of a BIR.
NumControlPoints == 3
ControlPoints == 1..NumControlPoints

\* The data a control point can have in the graphs explored, by its number.
PointData(i) ==
    CASE i % 3 = 1 ->
           {StatementData("Noop", n) : n \in ControlPoints}
             \cup {Goto(n) : n \in ControlPoints}
             \cup {If(LocalVariable(1), a, b) : a \in ControlPoints, b \in ControlPoints}
      [] i % 3 = 2 ->
           {If(LocalVariable(1), a, b) : a \in ControlPoints, b \in ControlPoints}
             \cup {StartAtomic(n) : n \in ControlPoints}
             \cup {EndAtomic(n) : n \in ControlPoints}
             \cup {Return(LocalVariable(1))}
      [] OTHER ->
           {AssignCall(TargetLocal(1), "fn", <<>>, n) : n \in ControlPoints}
             \cup {StatementData("Noop", n) : n \in ControlPoints}
             \cup {ErrorTerminator, Panic}

\* The tables of the first n control points.
RECURSIVE Tables(_)
Tables(n) ==
    IF n = 0 THEN {<<>>}
    ELSE {Append(t, d) : t \in Tables(n - 1), d \in PointData(n)}

Birs == {BirData(t, s) : t \in Tables(NumControlPoints), s \in ControlPoints}

BirInit ==
    /\ machine = [stack |-> <<[pc |-> ProgramCounter(1, 0),
                               variables |-> [v \in Locals |-> Uninit],
                               terminator |-> NoTerminator]>>,
                  objects |-> <<>>,
                  permissions |-> <<>>]
    /\ result = [cf |-> "Next", value |-> Uninit, err |-> "none",
                 arguments |-> <<>>, pc |-> NoPc]
    /\ last = "None"
    /\ kernel = "Some"
    /\ running = "none"
    /\ heap_graph = NoHeapGraph
    /\ writer = NoWriter
    /\ bir_data \in Birs
    /\ points = {}

\* bir_data.control_points()
ControlPointsCall ==
    /\ last = "None"
    /\ points' = control_points(bir_data)
    /\ last' = "control_points"
    /\ UNCHANGED <<machine, result, kernel, running, heap_graph, writer, bir_data>>

BirNext == ControlPointsCall

BirSpec == BirInit /\ [][BirNext]_vars

\* ---------------------------------------------------------------- programs
\* A sixth specification: step() on a program whose basic blocks list their
\* statements.  bir_data holds the basic blocks of the function.
BasicBlockData(statements, terminator) ==
    [statements |-> statements, terminator |-> terminator]

\* `pc.basic_block.data(table)`: the block of the pc of the top frame.
basic_block_data(m, bir) == bir.basic_blocks[top_frame(m).pc.basic_block]

\* Mutant of step: the statement executed is the first of the block,
\* whatever pc.statement is.
step_first_statement(m, bir) ==
    IF top_frame(m).pc.statement > Len(basic_block_data(m, bir).statements)
    THEN ControlFlow("Err", m, Uninit, "StatementIndexOutOfRange")
    ELSE IF top_frame(m).pc.statement < Len(basic_block_data(m, bir).statements)
    THEN step_at_statement(m, basic_block_data(m, bir).statements[1])
    ELSE step_at_terminator(m, basic_block_data(m, bir).terminator)

\* step(): the assertion on pc.statement, then the statement with the
\* index pc.statement (the index of the first statement is 0; the first
\* element of a sequence is 1) or, after the last statement, the terminator.
step(m, bir) ==
    IF top_frame(m).pc.statement > Len(basic_block_data(m, bir).statements)
    THEN ControlFlow("Err", m, Uninit, "StatementIndexOutOfRange")
    ELSE IF top_frame(m).pc.statement < Len(basic_block_data(m, bir).statements)
    THEN step_at_statement(m, basic_block_data(m, bir).statements[
                                  top_frame(m).pc.statement + 1])
    ELSE step_at_terminator(m, basic_block_data(m, bir).terminator)

\* The most statements of the first block of a program.
MaxStatements == 3

\* The statements of the programs explored.
ProgramStatements ==
    {Assign(TargetLocal(v), e) :
        v \in {1, 2},
        e \in {IntegerLiteral(22),
               Tuple(<<LocalVariable(1), LocalVariable(1)>>),
               Lease(LocalVariable(2)),
               Give(LocalVariable(1))}}

\* The lists of at most n statements.
RECURSIVE Listings(_)
Listings(n) ==
    IF n = 0 THEN {<<>>}
    ELSE Listings(n - 1)
           \cup {Append(l, s) : l \in {x \in Listings(n - 1) : Len(x) = n - 1},
                                s \in ProgramStatements}

\* The programs explored: a first block that goes to the second, which
\* returns.
Programs ==
    {[basic_blocks |-> <<BasicBlockData(l1, Goto(2)),
                         BasicBlockData(l2, Return(LocalVariable(v)))>>] :
        l1 \in Listings(MaxStatements), l2 \in Listings(1), v \in {1, 2}}

ProgramInit ==
    /\ machine = [stack |-> <<[pc |-> ProgramCounter(1, 0),
                               variables |-> [v \in Locals |-> Uninit],
                               terminator |-> NoTerminator]>>,
                  objects |-> <<>>,
                  permissions |-> <<>>]
    /\ result = [cf |-> "Next", value |-> Uninit, err |-> "none",
                 arguments |-> <<>>, pc |-> NoPc]
    /\ last = "None"
    /\ kernel = "Some"
    /\ running = "none"
    /\ heap_graph = NoHeapGraph
    /\ writer = NoWriter
    /\ bir_data \in Programs
    /\ points = {}

\* The driver calls step() while it returns Next.
Step ==
    /\ result.cf = "Next"
    /\ machine.stack # <<>>
    /\ Returned(step(machine, bir_data), "step")
    /\ UNCHANGED <<kernel, running>>

ProgramNext == Step

ProgramSpec == ProgramInit /\ [][ProgramNext]_vars

\* ---------------------------------------------------------------- helpers
\* A further step can be taken: the last step completed and a frame is left.
Completed == result.cf = "Next" /\ machine.stack # <<>>

\* The last step completed (it returned Next or Done).
AfterStep == result.cf # "Err"

PermHandles(m) == 1..Len(m.permissions)
Allocated(m) == {p \in PermHandles(m) : m.permissions[p].kind # "Free"}
CanceledPerms(m) == {p \in PermHandles(m) : m.permissions[p].canceled}
KindAt(m, place) == m.permissions[traverse_to_object(m, place).value.permission].kind
Slot(m, v) == top_frame(m).variables[v]

RECURSIVE TenantSubtree(_, _)
\* perm and the tenants below it.
TenantSubtree(m, perm) ==
    IF perm = 0 THEN {}
    ELSE {perm} \cup TenantSubtree(m, m.permissions[perm].tenant)

\* The permissions that borrow from perm, directly or through other borrows.
Descendants(m, perm) ==
    {x \in Allocated(m) : x # perm /\ perm \in LessorChain(m, x)}

RECURSIVE PathValues(_, _, _)
\* The values met by walking path from the value v.
PathValues(m, v, path) ==
    IF ~IsInit(v) THEN {}
    ELSE {v} \cup
         (IF path = <<>> \/ Head(path) > Len(m.objects[v.object].fields) THEN {}
          ELSE PathValues(m, m.objects[v.object].fields[Head(path)], Tail(path)))

PlacePerms(m, place) ==
    {v.permission : v \in PathValues(m, Slot(m, place.var), place.path)}

\* Every read of a place that passes through a value holding perm faults.
ReadsThroughFault(m, perm) ==
    \A place \in Places :
        perm \in PlacePerms(m, place) =>
            \A e \in {Give(place), GiveShare(place), Lease(place)} :
                eval_expr(m, e).err = "UseOfCanceledPermission"

\* The live values: slots, fields of reachable objects, the value in flight.
Live == LiveValues(machine, {result.value})

\* The places (slots, fields of reachable objects, the value in flight) whose
\* value holds perm.
References(perm) ==
    {x \in {"slot"} \X (1..Len(machine.stack)) \X Locals :
        machine.stack[x[2]].variables[x[3]].permission = perm}
    \cup {x \in {"field"} \X {v.object : v \in Live} \X Fields :
             /\ x[3] <= Len(machine.objects[x[2]].fields)
             /\ machine.objects[x[2]].fields[x[3]].permission = perm}
    \cup {x \in {<<"flight", 0, 0>>} : result.value.permission = perm}

\* ------------------------------------------------------------------ claims
\* C1: an assignment to a place whose traversal passes through a permission P
\* cancels the tenant T of P, and every read through a value holding T then
\* faults with UseOfCanceledPermission, as does every read through a canceled
\* permission in every later state.
C1_WriteCancelsTenant ==
    Completed =>
      /\ \A s \in Statements :
            LET e == eval_expr(machine, s.expr)
                t == traverse_to_place(e.m, s.target)
                r == assign_place(e.m, s.target, e.val)
            IN (e.err = "none" /\ r.err = "none") =>
                 \A i \in 1..Len(t.traversed) :
                    LET T == e.m.permissions[t.traversed[i]].tenant
                    IN T # 0 => /\ r.m.permissions[T].canceled
                                /\ ReadsThroughFault(r.m, T)
      /\ \A T \in CanceledPerms(machine) : ReadsThroughFault(machine, T)

\* p = (a, a); q = p.lease; then p.1 = a.give cancels the lease held in q and
\* the read of q.1 faults.
C1_Witness ==
    /\ Completed
    /\ \E p, q, a \in Locals :
         LET P == Slot(machine, p).permission
             T == Slot(machine, q).permission
             w == step_at_statement(machine,
                     Assign(TargetDot(LocalVariable(p), 1), Give(LocalVariable(a))))
             rd == step_at_statement(w.m,
                     Assign(TargetLocal(a), Give(Dot(LocalVariable(q), 1))))
         IN /\ P # 0 /\ T # 0
            /\ machine.permissions[P].kind = "My"
            /\ machine.permissions[P].tenant = T
            /\ machine.permissions[T].kind = "Leased"
            /\ ~machine.permissions[T].canceled
            /\ w.cf = "Next" /\ Fits(w.m)
            /\ w.m.permissions[T].canceled
            /\ rd.cf = "Err" /\ rd.err = "UseOfCanceledPermission"

\* C2: installing a new tenant on a permission P, by a lease or by a share of
\* a Leased or Shared place, cancels the prior tenant of P and every
\* permission that borrows from it, and leaves the new permission as the only
\* tenant of P.
C2_NewTenantCancelsPrior ==
    Completed =>
      \A place \in Places : \A e \in {Lease(place), GiveShare(place)} :
         LET t == traverse_to_object(machine, place)
             P == t.value.permission
             r == eval_expr(machine, e)
             N == r.val.permission
         IN (/\ t.err = "none"
             /\ r.err = "none"
             /\ e.kind = "GiveShare" => machine.permissions[P].kind \in {"Leased", "Shared"})
            => /\ N \notin PermHandles(machine)
               /\ r.m.permissions[P].tenant = N
               /\ r.m.permissions[N].lessor = P
               /\ {x \in Allocated(r.m) : r.m.permissions[x].lessor = P
                                           /\ ~r.m.permissions[x].canceled} = {N}
               /\ \A x \in Descendants(machine, P) : r.m.permissions[x].canceled
               /\ \A x \in TenantSubtree(machine, machine.permissions[P].tenant) :
                     r.m.permissions[x].canceled

\* q = p.lease; r = q.lease; then a new lease of p cancels both.
C2_Witness ==
    /\ Completed
    /\ \E p, q \in Locals :
         LET P == Slot(machine, p).permission
             T1 == machine.permissions[P].tenant
             T2 == machine.permissions[T1].tenant
             st == step_at_statement(machine, Assign(TargetLocal(q), Lease(LocalVariable(p))))
         IN /\ P # 0 /\ T1 # 0 /\ T2 # 0
            /\ ~machine.permissions[T1].canceled
            /\ ~machine.permissions[T2].canceled
            /\ st.cf = "Next" /\ Fits(st.m)
            /\ st.m.permissions[T2].canceled
            /\ st.m.permissions[P].tenant = Slot(st.m, q).permission
            /\ st.m.permissions[P].tenant \notin {0, T1, T2}

\* C3: after every completed step the tenant of a permission names that
\* permission as its lessor, and no permission has two live tenants.
C3_TenantLessor ==
    AfterStep =>
      \A P \in Allocated(machine) :
         /\ machine.permissions[P].tenant # 0 =>
               /\ machine.permissions[P].tenant \in Allocated(machine)
               /\ machine.permissions[machine.permissions[P].tenant].lessor = P
         /\ Cardinality({T \in Allocated(machine) :
                            /\ machine.permissions[T].lessor = P
                            /\ ~machine.permissions[T].canceled}) <= 1

\* A permission with a live tenant and a canceled former tenant.
C3_Witness ==
    /\ Completed
    /\ \E P, T, X \in Allocated(machine) :
         /\ machine.permissions[P].tenant = T
         /\ ~machine.permissions[T].canceled
         /\ X # T
         /\ machine.permissions[X].lessor = P
         /\ machine.permissions[X].canceled

\* C4, as claimed: after every completed step every live value has a
\* permission that is not canceled.
C4_LiveNotCanceled ==
    AfterStep => \A v \in Live : ~machine.permissions[v.permission].canceled

\* C4, amended: after every completed step every live value has a permission
\* that has not been reclaimed, and only a Leased or Shared permission of a
\* live value can be canceled.
C4_LiveNotReclaimed ==
    AfterStep =>
      \A v \in Live :
         /\ v.permission \in Allocated(machine)
         /\ machine.permissions[v.permission].canceled
               => machine.permissions[v.permission].kind \in {"Leased", "Shared"}

\* A slot that still holds a canceled lease after a completed step.
C4_Witness ==
    /\ Completed
    /\ \E v \in Locals :
         /\ IsInit(Slot(machine, v))
         /\ Slot(machine, v) \in Live
         /\ machine.permissions[Slot(machine, v).permission].canceled
         /\ machine.permissions[Slot(machine, v).permission].kind = "Leased"

\* C5: after every completed step no My or Our permission has a lessor, and
\* a My permission is held by at most one live value; no step ends with a
\* failure of the assertion of these invariants.
C5_OwnedUnique ==
    /\ result.err # "InvariantViolation"
    /\ AfterStep =>
         \A P \in Allocated(machine) :
            /\ machine.permissions[P].kind \in {"My", "Our"} => machine.permissions[P].lessor = 0
            /\ machine.permissions[P].kind = "My" => Cardinality(References(P)) <= 1

\* A My permission held once beside an Our permission held twice.
C5_Witness ==
    /\ Completed
    /\ \E P, Q \in Allocated(machine) :
         /\ machine.permissions[P].kind = "My"
         /\ Cardinality(References(P)) = 1
         /\ machine.permissions[Q].kind = "Our"
         /\ Cardinality(References(Q)) >= 2

\* C6: give of a place that holds a My permission moves it: the place becomes
\* uninitialized, the value given is the value the place held (same object,
\* same permission), and no permission is created or changed.
C6_GiveMovesMy ==
    Completed =>
      \A place \in Places :
         LET t == traverse_to_object(machine, place)
             r == eval_expr(machine, Give(place))
         IN (t.err = "none" /\ machine.permissions[t.value.permission].kind = "My")
            => /\ r.err = "none"
               /\ r.val = t.value
               /\ read_loc(r.m, t.loc) = Uninit
               /\ r.m.permissions = machine.permissions
               /\ r.m = write_loc(machine, t.loc, Uninit)

\* p holds a tuple it owns; q = p.give leaves p uninitialized and q with the
\* value of p.
C6_Witness ==
    /\ Completed
    /\ \E p, q \in Locals :
         LET st == step_at_statement(machine, Assign(TargetLocal(q), Give(LocalVariable(p))))
         IN /\ p # q
            /\ IsInit(Slot(machine, p))
            /\ machine.permissions[Slot(machine, p).permission].kind = "My"
            /\ st.cf = "Next" /\ Fits(st.m)
            /\ Slot(st.m, p) = Uninit
            /\ Slot(st.m, q) = Slot(machine, p)
            /\ st.m.permissions[Slot(st.m, q).permission].kind = "My"

\* C7: share of a place that holds a My permission demotes that permission
\* to Our, without a fault and leaving the place initialized; the value
\* shared holds the same permission, and so does the value of a second share.
C7_ShareDemotesMy ==
    Completed =>
      \A place \in Places :
         LET t == traverse_to_object(machine, place)
             P == t.value.permission
             r1 == eval_expr(machine, GiveShare(place))
             r2 == eval_expr(r1.m, GiveShare(place))
         IN (t.err = "none" /\ machine.permissions[P].kind = "My")
            => /\ r1.err = "none"
               /\ r1.val = t.value
               /\ r1.m.permissions[P].kind = "Our"
               /\ read_loc(r1.m, t.loc) = t.value
               /\ Len(r1.m.permissions) = Len(machine.permissions)
               /\ r2.err = "none"
               /\ r2.val = t.value
               /\ r2.m = r1.m

\* q = p.share; r = p.share: p, q and r hold one Our permission.
C7_Witness ==
    /\ Completed
    /\ \E p, q, r \in Locals :
         LET s1 == step_at_statement(machine, Assign(TargetLocal(q), GiveShare(LocalVariable(p))))
             s2 == step_at_statement(s1.m, Assign(TargetLocal(r), GiveShare(LocalVariable(p))))
         IN /\ Cardinality({p, q, r}) = 3
            /\ IsInit(Slot(machine, p))
            /\ machine.permissions[Slot(machine, p).permission].kind = "My"
            /\ s1.cf = "Next" /\ s2.cf = "Next" /\ Fits(s2.m)
            /\ Slot(s2.m, q) = Slot(s2.m, p)
            /\ Slot(s2.m, r) = Slot(s2.m, p)
            /\ Slot(s2.m, p) = Slot(machine, p)
            /\ s2.m.permissions[Slot(s2.m, p).permission].kind = "Our"

\* C8: for a place that holds a My permission, share followed by give does
\* not move the place: the give duplicates, the place stays initialized and
\* the value given holds the permission of the place, now Our.
C8_ShareThenGive ==
    Completed =>
      \A place \in Places :
         LET t == traverse_to_object(machine, place)
             P == t.value.permission
             r1 == eval_expr(machine, GiveShare(place))
             r2 == eval_expr(r1.m, Give(place))
         IN (t.err = "none" /\ machine.permissions[P].kind = "My")
            => /\ r1.err = "none" /\ r2.err = "none"
               /\ read_loc(r2.m, t.loc) = t.value
               /\ r2.val = t.value
               /\ r2.m.permissions[r2.val.permission].kind = "Our"

\* q = p.share; r = p.give: p is still initialized and r holds its permission.
C8_Witness ==
    /\ Completed
    /\ \E p, q, r \in Locals :
         LET s1 == step_at_statement(machine, Assign(TargetLocal(q), GiveShare(LocalVariable(p))))
             s2 == step_at_statement(s1.m, Assign(TargetLocal(r), Give(LocalVariable(p))))
         IN /\ p # q /\ p # r
            /\ IsInit(Slot(machine, p))
            /\ machine.permissions[Slot(machine, p).permission].kind = "My"
            /\ s1.cf = "Next" /\ s2.cf = "Next" /\ Fits(s2.m)
            /\ IsInit(Slot(s2.m, p))
            /\ Slot(s2.m, r).permission = Slot(machine, p).permission
            /\ s2.m.permissions[Slot(s2.m, r).permission].kind = "Our"

\* C9: give of a place whose permission is Leased or Shared, and lease of a
\* place whose permission is Our, fault with InsufficientPermission and leave
\* the machine as it was.
C9_InsufficientPermission ==
    Completed =>
      \A place \in Places :
         LET t == traverse_to_object(machine, place)
             k == machine.permissions[t.value.permission].kind
         IN t.err = "none" =>
              /\ k \in {"Leased", "Shared"} =>
                    /\ eval_expr(machine, Give(place)) = Err(machine, "InsufficientPermission")
                    /\ \A tg \in TargetPlaces :
                          LET st == step_at_statement(machine, Assign(tg, Give(place)))
                          IN st.cf = "Err" /\ st.err = "InsufficientPermission"
                             /\ st.m = machine
              /\ k = "Our" =>
                    /\ eval_expr(machine, Lease(place)) = Err(machine, "InsufficientPermission")
                    /\ \A tg \in TargetPlaces :
                          LET st == step_at_statement(machine, Assign(tg, Lease(place)))
                          IN st.cf = "Err" /\ st.err = "InsufficientPermission"
                             /\ st.m = machine

\* A state with a Leased place, a Shared place and an Our place, each of
\* which faults.
C9_Witness ==
    /\ Completed
    /\ \E a, b, c \in Places :
         /\ traverse_to_object(machine, a).err = "none" /\ KindAt(machine, a) = "Leased"
         /\ traverse_to_object(machine, b).err = "none" /\ KindAt(machine, b) = "Shared"
         /\ traverse_to_object(machine, c).err = "none" /\ KindAt(machine, c) = "Our"
         /\ eval_expr(machine, Give(a)).err = "InsufficientPermission"
         /\ eval_expr(machine, Give(b)).err = "InsufficientPermission"
         /\ eval_expr(machine, Lease(c)).err = "InsufficientPermission"

\* The tenants, and the tenants below them, of the permissions traversed.
TraversedTenants(m, traversed) ==
    UNION {TenantSubtree(m, m.permissions[traversed[i]].tenant) : i \in 1..Len(traversed)}

\* C10, as claimed: an assignment revokes only the tenants of the permissions
\* traversed; the permissions traversed are not canceled and the place written
\* through stays readable.
C10_WriteKeepsTraversed ==
    Completed =>
      \A s \in Statements :
         LET e == eval_expr(machine, s.expr)
             t == traverse_to_place(e.m, s.target)
             r == assign_place(e.m, s.target, e.val)
         IN (e.err = "none" /\ r.err = "none") =>
              /\ CanceledPerms(r.m) \ CanceledPerms(e.m)
                    \subseteq TraversedTenants(e.m, t.traversed)
              /\ \A i \in 1..Len(t.traversed) :
                    ~e.m.permissions[t.traversed[i]].canceled
                       => ~r.m.permissions[t.traversed[i]].canceled
              /\ s.target.kind = "Dot"
                    => traverse_to_object(r.m, s.target.place).err = "none"

\* C10, amended: an assignment revokes only the tenants of the permissions
\* traversed; a permission traversed that is not itself a tenant below
\* another permission traversed is not canceled, and when none is, the place
\* written through stays readable.
C10_WriteKeepsUnborrowedTraversed ==
    Completed =>
      \A s \in Statements :
         LET e == eval_expr(machine, s.expr)
             t == traverse_to_place(e.m, s.target)
             r == assign_place(e.m, s.target, e.val)
             below == TraversedTenants(e.m, t.traversed)
         IN (e.err = "none" /\ r.err = "none") =>
              /\ CanceledPerms(r.m) \ CanceledPerms(e.m) \subseteq below
              /\ \A i \in 1..Len(t.traversed) :
                    (~e.m.permissions[t.traversed[i]].canceled /\ t.traversed[i] \notin below)
                       => ~r.m.permissions[t.traversed[i]].canceled
              /\ (s.target.kind = "Dot"
                    /\ \A i \in 1..Len(t.traversed) : t.traversed[i] \notin below)
                    => traverse_to_object(r.m, s.target.place).err = "none"

\* q = p.lease; p.1 = p.2.give: the lease of q is canceled, the permission
\* of p is not, and p.1 can be read.
C10_Witness ==
    /\ Completed
    /\ \E p \in Locals :
         LET P == Slot(machine, p).permission
             T == machine.permissions[P].tenant
             st == step_at_statement(machine,
                      Assign(TargetDot(LocalVariable(p), 1), Give(Dot(LocalVariable(p), 2))))
         IN /\ P # 0 /\ T # 0
            /\ ~machine.permissions[T].canceled
            /\ st.cf = "Next" /\ Fits(st.m)
            /\ st.m.permissions[T].canceled
            /\ ~st.m.permissions[P].canceled
            /\ CanceledPerms(st.m) = CanceledPerms(machine) \cup {T}
            /\ eval_expr(st.m, Give(Dot(LocalVariable(p), 1))).err = "none"

\* C11: in an assignment the expression is evaluated in full before any
\* revocation caused by writing the target: a fault of the expression leaves
\* the target untouched, and p.1 = q.2.give with q a live lease of p reads
\* q.2 through the lease, completes, and has canceled the lease of q by the
\* time it has completed.
C11_EvalBeforeRevoke ==
    Completed =>
      /\ \A s \in Statements :
            LET e == eval_expr(machine, s.expr)
                r == step_statement(machine, s)
            IN IF e.err # "none" THEN r = e
               ELSE r = assign_place(e.m, s.target, e.val)
      /\ \A p, q \in Locals :
            LET P == Slot(machine, p).permission
                T == Slot(machine, q).permission
                target == TargetDot(LocalVariable(p), 1)
                e == eval_expr(machine, Give(Dot(LocalVariable(q), 2)))
                r == step_statement(machine, Assign(target, Give(Dot(LocalVariable(q), 2))))
            IN (/\ P # 0 /\ T # 0
                /\ machine.permissions[P].tenant = T
                /\ e.err = "none"
                /\ traverse_to_place(machine, target).err = "none")
               => /\ r.err = "none"
                  /\ r.m.permissions[T].canceled
                  /\ read_loc(r.m, FieldLoc(Slot(machine, p).object, 1)) = e.val

\* p = (a, a); q = p.lease; the step of p.1 = q.2.give returns Next, p.1
\* holds what q.2 held and the lease of q is canceled.
C11_Witness ==
    /\ Completed
    /\ \E p, q \in Locals :
         LET P == Slot(machine, p).permission
             T == Slot(machine, q).permission
             seen == traverse_to_object(machine, Dot(LocalVariable(q), 2))
             st == step_at_statement(machine,
                      Assign(TargetDot(LocalVariable(p), 1), Give(Dot(LocalVariable(q), 2))))
         IN /\ P # 0 /\ T # 0
            /\ machine.permissions[P].kind = "My"
            /\ machine.permissions[P].tenant = T
            /\ machine.permissions[T].kind = "Leased"
            /\ ~machine.permissions[T].canceled
            /\ seen.err = "none"
            /\ st.cf = "Next" /\ Fits(st.m)
            /\ st.m.permissions[T].canceled
            /\ st.m.objects[Slot(machine, p).object].fields[1] = seen.value
            /\ traverse_to_object(st.m, Dot(LocalVariable(q), 2)).err
                  = "UseOfCanceledPermission"

RECURSIVE ReachedValues(_, _, _)
\* The values reached from vals in at most n hops through the fields of
\* instances and tuples and the arguments of thunks.
ReachedValues(m, vals, n) ==
    IF n = 0 THEN vals
    ELSE ReachedValues(m,
            vals \cup {w \in UNION {Range(m.objects[v.object].fields) : v \in vals} :
                          IsInit(w)},
            n - 1)

\* The values reachable from the initialized slots of all frames and from
\* the in-flight values.
Reachable(m, inflight) ==
    ReachedValues(m,
        {w \in {m.stack[i].variables[v] : i \in 1..Len(m.stack), v \in Locals}
                  \cup inflight : IsInit(w)},
        Len(m.objects))

RECURSIVE Lessors(_, _, _)
\* p and the permissions it borrows from, at most n lessors up.
Lessors(m, p, n) ==
    IF p = 0 THEN {}
    ELSE IF n = 0 THEN {p}
    ELSE {p} \cup Lessors(m, m.permissions[p].lessor, n - 1)

\* The sweep that took pre to post kept everything the in-flight values and
\* the stack reach: the permissions of the values and their lessors are not
\* reclaimed and keep their kind, lessor and cancellation, the objects keep
\* their data.
SweepKeeps(pre, inflight, post) ==
    \A v \in Reachable(pre, inflight) :
       /\ post.objects[v.object] = pre.objects[v.object]
       /\ pre.objects[v.object].kind # "Free"
       /\ \A p \in Lessors(pre, v.permission, Len(pre.permissions)) :
             /\ pre.permissions[p].kind # "Free"
             /\ post.permissions[p].kind = pre.permissions[p].kind
             /\ post.permissions[p].lessor = pre.permissions[p].lessor
             /\ post.permissions[p].canceled = pre.permissions[p].canceled

\* The machine before the sweep of a step at statement s.
BeforeSweep(s) ==
    set_pc(step_statement(machine, s).m,
           [top_frame(machine).pc EXCEPT !.statement = @ + 1])

\* C12: no gc run, be it the sweep that ends a step at a statement or at a
\* terminator or the sweep of a Return, reclaims a permission held by a
\* value reachable from an initialized slot or an in-flight value, a lessor
\* of such a permission, or an object reachable through fields or thunk
\* arguments.
C12_GcKeepsLive ==
    (Completed /\ running = "none") =>
      /\ AtStatement =>
            \A s \in FrameStatements :
               step_statement(machine, s).err = "none" =>
                  SweepKeeps(BeforeSweep(s), {}, step_at_statement(machine, s).m)
      /\ AtTerminator =>
            \A t \in FrameTerminators :
               LET cf == step_terminator(machine, top_frame(machine).pc, t)
               IN cf.cf # "Err" =>
                    SweepKeeps(cf.m, {cf.value} \cup Range(cf.arguments),
                               step_at_terminator(machine, t).m)
      /\ AtTerminator =>
            \A t \in {x \in FrameTerminators : x.kind = "Return"} :
               LET g == give_place(machine, t.place)
               IN g.err = "none" =>
                    SweepKeeps(clear_frame(g.m), {g.val},
                               gc(clear_frame(g.m), {g.val}))

\* A slot holds a lease of a tuple whose lessor no value holds any more; the
\* assignment that overwrote the holder of the lessor has swept, and the
\* lessor is still allocated.
C12_Witness ==
    /\ Completed /\ running = "none" /\ last = "Assign"
    /\ \E v \in Locals :
         LET T == Slot(machine, v).permission
             P == machine.permissions[T].lessor
         IN /\ T # 0 /\ P # 0
            /\ P \notin {w.permission : w \in Reachable(machine, {})}
            /\ machine.permissions[P].kind = "My"
            /\ machine.objects[Slot(machine, v).object].kind = "Tuple"

\* The values in flight and what they reach through fields and arguments.
InFlight(m, inflight) ==
    ReachedValues(m, {w \in inflight : IsInit(w)}, Len(m.objects))

\* The sweep that took pre to post treated the in-flight values as roots:
\* their objects and permissions, and those of the values they reach, are as
\* before.
RootsKept(pre, inflight, post) ==
    \A v \in InFlight(pre, inflight) :
       /\ pre.objects[v.object].kind # "Free"
       /\ pre.permissions[v.permission].kind # "Free"
       /\ post.objects[v.object] = pre.objects[v.object]
       /\ post.permissions[v.permission].kind = pre.permissions[v.permission].kind

\* C13: the value of a returned Done and the arguments of the thunk of a
\* returned Await are roots of the sweep that ends the step, and the value
\* of a Return is a root of the sweep between clear_frame and pop_frame:
\* their objects and permissions, and what they reach, are not reclaimed.
C13_InFlightRoots ==
    /\ result.cf \in {"Await", "Done"} =>
          /\ IsInit(result.value) \/ result.cf = "Await"
          /\ \A v \in InFlight(machine, {result.value} \cup Range(result.arguments)) :
                /\ machine.objects[v.object].kind # "Free"
                /\ machine.permissions[v.permission].kind # "Free"
    /\ (Completed /\ running = "none" /\ AtTerminator) =>
          \A t \in FrameTerminators :
             LET cf == step_terminator(machine, top_frame(machine).pc, t)
                 g == give_place(machine, t.place)
             IN /\ cf.cf \in {"Await", "Done"} =>
                      RootsKept(cf.m, {cf.value} \cup Range(cf.arguments),
                                step_at_terminator(machine, t).m)
                /\ (t.kind = "Return" /\ g.err = "none") =>
                      RootsKept(clear_frame(g.m), {g.val},
                                gc(clear_frame(g.m), {g.val}))

\* step returned Await with the thunk of the host that captured a tuple: the
\* tuple is reachable from no slot and still allocated, with its fields.
C13_Witness ==
    /\ result.cf = "Await"
    /\ last = "Await"
    /\ Len(result.arguments) = 1
    /\ result.arguments[1] \notin Reachable(machine, {})
    /\ machine.objects[result.arguments[1].object].kind = "Tuple"
    /\ machine.permissions[result.arguments[1].permission].kind = "My"
    /\ Cardinality(InFlight(machine, Range(result.arguments))) = 2

\* The machine a program starts with: one frame at the start of the first
\* block, no object and no permission.
Entry ==
    [stack |-> <<[pc |-> ProgramCounter(1, 0),
                  variables |-> [v \in Locals |-> Uninit],
                  terminator |-> NoTerminator]>>,
     objects |-> <<>>,
     permissions |-> <<>>]

\* The machine after the statement s has been executed once at the pc of
\* the top frame: its effect, the pc one statement further, the sweep.
Once(m, s) ==
    gc(set_pc(step_statement(m, s).m,
              [top_frame(m).pc EXCEPT !.statement = top_frame(m).pc.statement + 1]),
       {})

\* The machine after the first k statements of the listing have been
\* executed from m in the order listed, each once.
RECURSIVE Executed(_, _, _)
Executed(m, listing, k) ==
    IF k = 0 THEN m ELSE Once(Executed(m, listing, k - 1), listing[k])

\* The statements the block b of the program lists.
Listed(b) == bir_data.basic_blocks[b].statements

\* The machine on entry of the block b: the first block is entered at the
\* start, the second by the terminator of the first after all its
\* statements.
EnteredBlock(b) ==
    IF b = 1 THEN Entry
    ELSE step_at_terminator(Executed(Entry, Listed(1), Len(Listed(1))),
                            bir_data.basic_blocks[1].terminator).m

\* The listing with its first two statements exchanged.
Exchanged(listing) ==
    [i \in 1..Len(listing) |->
        IF i = 1 THEN listing[2] ELSE IF i = 2 THEN listing[1] ELSE listing[i]]

\* step() at the statement s of the listing: a fault of the statement is
\* the fault of the step; otherwise the step returns Next with pc.statement
\* one higher, bir, basic block and depth unchanged and the slots as the
\* statement left them.
StepsStatement(s) ==
    IF step_statement(machine, s).err # "none"
    THEN /\ step(machine, bir_data).cf = "Err"
         /\ step(machine, bir_data).err = step_statement(machine, s).err
    ELSE /\ step(machine, bir_data).cf = "Next"
         /\ Len(step(machine, bir_data).m.stack) = Len(machine.stack)
         /\ top_frame(step(machine, bir_data).m).pc
               = [top_frame(machine).pc EXCEPT
                     !.statement = top_frame(machine).pc.statement + 1]
         /\ top_frame(step(machine, bir_data).m).variables
               = top_frame(step_statement(machine, s).m).variables

\* C14: with pc.statement below the number of statements of the block, a
\* completed step executes exactly the statement listed at pc.statement,
\* adds one to pc.statement, keeps bir and basic block, and returns Next;
\* hence whenever the pc is at position k of a block, the first k
\* statements of the block have been executed in the order listed, each
\* once, and the terminator is reached after all of them.
C14_StatementStep ==
    Completed =>
       /\ top_frame(machine).pc.statement
             <= Len(Listed(top_frame(machine).pc.basic_block))
       /\ machine = Executed(EnteredBlock(top_frame(machine).pc.basic_block),
                             Listed(top_frame(machine).pc.basic_block),
                             top_frame(machine).pc.statement)
       /\ top_frame(machine).pc.statement
             < Len(Listed(top_frame(machine).pc.basic_block)) =>
               StepsStatement(Listed(top_frame(machine).pc.basic_block)[
                                 top_frame(machine).pc.statement + 1])

\* The steps of a first block of three different statements have completed
\* and the pc is at its terminator; with the first two statements exchanged
\* the machine would be another.
C14_Witness ==
    /\ Completed
    /\ last = "step"
    /\ top_frame(machine).pc = ProgramCounter(1, 3)
    /\ Len(Listed(1)) = 3
    /\ Cardinality(Range(Listed(1))) = 3
    /\ machine # Executed(Entry, Exchanged(Listed(1)), 3)

\* The object a place of the top frame names, FreeObj if it cannot be read.
ObjectAt(m, place) ==
    IF traverse_to_object(m, place).err # "none" THEN FreeObj
    ELSE m.objects[traverse_to_object(m, place).value.object]

\* C15: step returns Await only at an Assign-Await terminator whose thunk is
\* a thunk of the host, and Done only at a Return that pops the last frame
\* and leaves the stack empty; every other step that completes, at a
\* statement or at a terminator, returns Next.
C15_ControlFlowKinds ==
    /\ result.cf = "Await" => last = "Await"
    /\ result.cf = "Done" => last = "Return" /\ machine.stack = <<>>
    /\ (Completed /\ running = "none" /\ AtStatement) =>
          \A s \in FrameStatements :
             step_at_statement(machine, s).cf \in {"Next", "Err"}
    /\ (Completed /\ running = "none" /\ AtTerminator) =>
          \A t \in FrameTerminators :
             LET cf == step_at_terminator(machine, t)
                 native == /\ t.kind = "Await"
                           /\ ObjectAt(machine, t.place).kind = "ThunkRust"
                 last_frame == t.kind = "Return" /\ Len(machine.stack) = 1
             IN /\ cf.cf \in {"Next", "Await", "Done", "Err"}
                /\ cf.cf = "Await" => native
                /\ cf.cf = "Done" => last_frame /\ cf.m.stack = <<>>
                /\ cf.cf = "Next" => ~native /\ ~last_frame

\* The frame of a called function is at a Return of a value it holds: the
\* step pops the frame, resumes the caller and returns Next, not Done.
C15_Witness ==
    /\ Completed /\ running = "none" /\ AtTerminator
    /\ Len(machine.stack) = 2
    /\ LET cf == step_at_terminator(machine, Return(LocalVariable(1)))
       IN /\ cf.cf = "Next"
          /\ Len(cf.m.stack) = 1
          /\ FitsFrames(cf.m)

\* The frame below the top frame.
caller(m) == m.stack[Len(m.stack) - 1]

\* C16: a Return whose value can be given, in a frame with a caller, removes
\* the frame of the callee only, stores the value in the destination of the
\* Assign terminator the caller waits at, leaves the other slots of the
\* caller and the frames below it alone, moves the pc of the caller to the
\* start of the next block of that terminator and returns Next; without a
\* caller it returns Done with the pc of the Return and the value.
C16_ReturnResumes ==
    (Completed /\ running = "none" /\ AtTerminator) =>
       \A t \in {x \in FrameTerminators : x.kind = "Return"} :
          LET g == give_place(machine, t.place)
              cf == step_at_terminator(machine, t)
              n == Len(machine.stack)
          IN g.err = "none" =>
               IF n = 1
               THEN /\ cf.cf = "Done"
                    /\ cf.pc = top_frame(machine).pc
                    /\ cf.value = g.val
                    /\ cf.m.stack = <<>>
               ELSE LET pending == caller(machine).terminator
                        dest == pending.destination.place.var
                    IN /\ pending.kind \in {"Call", "Await"}
                       /\ cf.cf = "Next"
                       /\ Len(cf.m.stack) = n - 1
                       /\ SubSeq(cf.m.stack, 1, n - 2) = SubSeq(machine.stack, 1, n - 2)
                       /\ top_frame(cf.m).variables[dest] = g.val
                       /\ \A v \in Locals \ {dest} :
                             top_frame(cf.m).variables[v] = caller(machine).variables[v]
                       /\ top_frame(cf.m).pc
                             = [bir |-> caller(machine).pc.bir,
                                basic_block |-> pending.next_block,
                                statement |-> 0]

\* A called function has returned the tuple it was given: the caller holds
\* it in the destination of the call and is at the start of the next block.
C16_Witness ==
    /\ Completed /\ last = "Return"
    /\ Len(machine.stack) = 1
    /\ top_frame(machine).pc = ProgramCounter(2, 0)
    /\ IsInit(Slot(machine, 3))
    /\ machine.objects[Slot(machine, 3).object].kind = "Tuple"
    /\ machine.permissions[Slot(machine, 3).permission].kind = "My"

\* The permissions the values in the slots of the top frame hold.
HeldByFrame(m) == {top_frame(m).variables[v].permission : v \in Locals} \ {0}

\* The permissions of the values the stack and the in-flight values reach,
\* with their lessors.
KeptPermissions(m, inflight) ==
    UNION {Lessors(m, v.permission, Len(m.permissions)) : v \in Reachable(m, inflight)}

\* C17: on Return the value is given first, then the frame is cleared and
\* the heap swept, and only then is the frame popped: the tenants of what
\* the callee held are canceled, and what the callee alone reached is
\* reclaimed, in machines whose top frame is still the frame of the callee
\* with its pc at the Return and whose other frames are untouched; the step
\* continues from the machine so swept.
C17_ClearBeforePop ==
    (Completed /\ running = "none" /\ AtTerminator) =>
       \A t \in {x \in FrameTerminators : x.kind = "Return"} :
          LET g == give_place(machine, t.place)
              n == Len(machine.stack)
              pc == top_frame(machine).pc
              cleared == clear_frame(g.m)
              swept == gc(cleared, {g.val})
          IN g.err = "none" =>
               /\ Len(g.m.stack) = n /\ top_frame(g.m).pc = pc
               /\ Len(cleared.stack) = n /\ top_frame(cleared).pc = pc
               /\ \A v \in Locals : top_frame(cleared).variables[v] = Uninit
               /\ SubSeq(cleared.stack, 1, n - 1) = SubSeq(machine.stack, 1, n - 1)
               /\ \A p \in HeldByFrame(g.m) :
                     /\ cleared.permissions[p].tenant = 0
                     /\ \A q \in TenantSubtree(g.m, g.m.permissions[p].tenant) :
                           cleared.permissions[q].canceled
               /\ swept.stack = cleared.stack
               /\ \A p \in Allocated(cleared) \ KeptPermissions(cleared, {g.val}) :
                     swept.permissions[p].kind = "Free"
               /\ step_terminator(machine, pc, t)
                     = frame_popped(pop_frame(swept), pc, g.val)
               /\ n > 1 =>
                     \A v \in Locals \ {caller(machine).terminator.destination.place.var} :
                        top_frame(step_at_terminator(machine, t).m).variables[v]
                           = caller(machine).variables[v]

\* A called function holds a tuple and a lease of it and returns a boolean:
\* clearing the frame cancels the lease, the sweep reclaims the lease and
\* the tuple, both with the frame of the callee on top, and the caller,
\* which still holds the values it had, is resumed.
C17_Witness ==
    /\ Completed /\ running = "none" /\ AtTerminator
    /\ Len(machine.stack) = 2
    /\ IsInit(caller(machine).variables[2])
    /\ \E v \in Locals :
         LET P == Slot(machine, 1).permission
             T == Slot(machine, v).permission
             g == give_place(machine, LocalVariable(3))
             cleared == clear_frame(g.m)
             swept == gc(cleared, {g.val})
             cf == step_at_terminator(machine, Return(LocalVariable(3)))
         IN /\ P # 0 /\ T # 0
            /\ machine.permissions[P].tenant = T
            /\ ~machine.permissions[T].canceled
            /\ g.err = "none"
            /\ cleared.permissions[T].canceled
            /\ Len(cleared.stack) = 2
            /\ swept.permissions[T].kind = "Free"
            /\ swept.permissions[P].kind = "Free"
            /\ cf.cf = "Next" /\ FitsFrames(cf.m)
            /\ top_frame(cf.m).variables[2] = caller(machine).variables[2]

\* C18: a step that returns Await leaves the stack depth and the pc of the
\* top frame alone, so the frame is still at the Assign-Await terminator;
\* awaken(value) then is resume_with(value): it stores the value in the
\* destination of that terminator, moves the pc to the start of its next
\* block and keeps the stack depth.
C18_AwakenResumes ==
    /\ (Completed /\ running = "none" /\ AtTerminator) =>
          \A t \in FrameTerminators :
             LET cf == step_at_terminator(machine, t)
             IN cf.cf = "Await" =>
                  /\ Len(cf.m.stack) = Len(machine.stack)
                  /\ top_frame(cf.m).pc = top_frame(machine).pc
                  /\ top_frame(cf.m).terminator = t
    /\ result.cf = "Await" =>
          /\ machine.stack # <<>>
          /\ AtTerminator
          /\ top_frame(machine).terminator.kind = "Await"
          /\ LET v == host_value(machine)
                 pending == top_frame(machine).terminator
                 r == awaken(v.m, v.val)
             IN /\ r = resume_with(v.m, v.val)
                /\ r.err = "none"
                /\ Len(r.m.stack) = Len(machine.stack)
                /\ top_frame(r.m).variables[pending.destination.place.var] = v.val
                /\ \A x \in Locals \ {pending.destination.place.var} :
                      top_frame(r.m).variables[x] = top_frame(machine).variables[x]
                /\ top_frame(r.m).pc
                      = move_to_block(top_frame(machine).pc, pending.next_block)
                /\ SubSeq(r.m.stack, 1, Len(r.m.stack) - 1)
                      = SubSeq(machine.stack, 1, Len(machine.stack) - 1)

\* step returned Await with the frame still at the terminator of its second
\* block; awaken with the value of the host stores the value in the
\* destination and resumes the frame at the start of the first block.
C18_Witness ==
    /\ result.cf = "Await"
    /\ Len(machine.stack) = 1
    /\ top_frame(machine).pc.basic_block = 2
    /\ top_frame(machine).pc.statement = BlockStatements[2]
    /\ LET cf == awaken_with(host_value(machine))
       IN /\ cf.cf = "Next"
          /\ FitsFrames(cf.m)
          /\ Len(cf.m.stack) = 1
          /\ top_frame(cf.m).pc = ProgramCounter(1, 0)
          /\ cf.m.objects[top_frame(cf.m).variables[2].object].kind = "Unit"

\* Nothing is left to reclaim in m: every allocated object and permission is
\* reached from the stack or the in-flight values.
Swept(m, inflight) ==
    /\ \A o \in 1..Len(m.objects) :
          m.objects[o].kind = "Free" \/ o \in {v.object : v \in Reachable(m, inflight)}
    /\ Allocated(m) \subseteq KeptPermissions(m, inflight)

\* C19: a step that completes has run gc and then assert_invariants after
\* its own mutations: the machine it returns has the stack, pcs included, of
\* the machine the statement or terminator produced, nothing in it is left
\* to reclaim, and it satisfies the invariants asserted; so does the machine
\* after every completed step, breakpoint statements included.
C19_GcThenAssert ==
    /\ (result.cf # "Err" /\ running = "none" /\ last \notin {"None", "Awaken"}) =>
          /\ Swept(machine, {result.value} \cup Range(result.arguments))
          /\ assert_invariants(machine) = "none"
    /\ (Completed /\ running = "none" /\ AtStatement) =>
          \A s \in FrameStatements :
             LET st == step_at_statement(machine, s)
             IN step_statement(machine, s).err = "none" =>
                  /\ st.cf = "Next"
                  /\ st.m.stack = BeforeSweep(s).stack
                  /\ Swept(st.m, {})
                  /\ assert_invariants(st.m) = "none"
    /\ (Completed /\ running = "none" /\ AtTerminator) =>
          \A t \in FrameTerminators :
             LET cf == step_terminator(machine, top_frame(machine).pc, t)
                 st == step_at_terminator(machine, t)
             IN cf.cf # "Err" =>
                  /\ st.cf = cf.cf /\ st.value = cf.value
                  /\ st.m.stack = cf.m.stack
                  /\ Swept(st.m, {cf.value} \cup Range(cf.arguments))
                  /\ assert_invariants(st.m) = "none"

\* A slot holds a tuple and the statement overwrites it with a boolean: the
\* machine the statement leaves has the tuple to reclaim, the machine the
\* step returns has not.
C19_Witness ==
    /\ Completed /\ running = "none" /\ AtStatement
    /\ IsInit(Slot(machine, 2))
    /\ machine.objects[Slot(machine, 2).object].kind = "Tuple"
    /\ LET s == Assign(TargetLocal(2), BooleanLiteral(1))
           st == step_at_statement(machine, s)
       IN /\ st.cf = "Next" /\ FitsFrames(st.m)
          /\ ~Swept(BeforeSweep(s), {})
          /\ Swept(st.m, {})
          /\ st.m.objects[Slot(machine, 2).object].kind = "Free"

\* C20: the stepper holds its kernel handle whenever no breakpoint callback
\* is running, so at the start and at the end of every step, also of a step
\* whose callback failed; the handle is absent only while a callback of
\* breakpoint_start or breakpoint_end runs, and taking it yields the handle.
C20_KernelHeld ==
    /\ kernel \in {"Some", "None"}
    /\ running = "none" => kernel = "Some"
    /\ kernel = "None" => running \in Breakpoints
    /\ result.err = "HostError" => kernel = "Some" /\ running = "none"
    /\ (Completed /\ running = "none" /\ AtStatement) => take(kernel).taken = "Some"

\* The callback of a breakpoint returned a failure: the step ended with
\* that failure and the stepper holds the handle again.
C20_Witness ==
    /\ result.cf = "Err"
    /\ result.err = "HostError"
    /\ last \in Breakpoints
    /\ running = "none"
    /\ kernel = "Some"

\* The permissions that are canceled in m.
Canceled(m) == {p \in Allocated(m) : m.permissions[p].canceled}

\* C21: a BreakpointStart or BreakpointEnd statement changes nothing in the
\* machine, whether or not the kernel invokes the producer of the snapshot
\* and whatever in-flight place is peeked; the step it ends advances the pc
\* by one statement, writes no slot, creates and cancels no permission and
\* leaves every object and permission the stack reaches as it was.
C21_BreakpointNoEffect ==
    running \in Breakpoints =>
       \A invoked \in BOOLEAN : \A place \in InFlightPlaces(running) :
          LET r == breakpoint_callback(machine, TRUE, invoked, place)
              pc == top_frame(machine).pc
              st == statement_stepped(pc, r)
          IN /\ r.m = machine
             /\ breakpoint_callback(machine, FALSE, invoked, place).m = machine
             /\ st.cf = "Next"
             /\ top_frame(st.m).pc = [pc EXCEPT !.statement = pc.statement + 1]
             /\ Len(st.m.stack) = Len(machine.stack)
             /\ \A i \in 1..Len(machine.stack) :
                   st.m.stack[i].variables = machine.stack[i].variables
             /\ Len(st.m.objects) = Len(machine.objects)
             /\ Len(st.m.permissions) = Len(machine.permissions)
             /\ Canceled(st.m) \subseteq Canceled(machine)
             /\ SweepKeeps(machine, {}, st.m)

\* The callback of a BreakpointEnd runs while a slot holds a tuple with a
\* live lease; the producer peeks that slot, and the step ends with the
\* tuple still in the slot and the lease still live.
C21_Witness ==
    /\ running = "BreakpointEnd"
    /\ LET P == Slot(machine, 1).permission
           T == machine.permissions[P].tenant
           st == statement_stepped(top_frame(machine).pc,
                    breakpoint_callback(machine, TRUE, TRUE, <<LocalVariable(1)>>))
       IN /\ P # 0 /\ T # 0
          /\ machine.permissions[P].kind = "My"
          /\ ~machine.permissions[T].canceled
          /\ peek_place(machine, LocalVariable(1)).err = "none"
          /\ st.cf = "Next"
          /\ Slot(st.m, 1) = Slot(machine, 1)
          /\ st.m.permissions[P].tenant = T
          /\ ~st.m.permissions[T].canceled

\* C22: StartAtomic(b) and EndAtomic(b) do what Goto(b) does: the step
\* returns Next with the pc at the start of block b and with every slot,
\* object and permission as before.
C22_AtomicsAreGoto ==
    (Completed /\ running = "none" /\ AtTerminator) =>
       \A b \in Blocks : \A t \in {StartAtomic(b), EndAtomic(b)} :
          LET st == step_at_terminator(machine, t)
          IN /\ st = step_at_terminator(machine, Goto(b))
             /\ st.cf = "Next"
             /\ top_frame(st.m).pc = move_to_block(top_frame(machine).pc, b)
             /\ top_frame(st.m).pc.statement = 0
             /\ top_frame(st.m).variables = top_frame(machine).variables
             /\ Len(st.m.stack) = Len(machine.stack)
             /\ st.m.objects = machine.objects
             /\ st.m.permissions = machine.permissions

\* A StartAtomic in the first block has moved the frame to the second
\* block; the tuple and the lease of it that the frame holds are untouched.
C22_Witness ==
    /\ Completed /\ last = "StartAtomic"
    /\ top_frame(machine).pc = ProgramCounter(2, 0)
    /\ \E v \in Locals :
         LET T == Slot(machine, v).permission
         IN /\ T # 0
            /\ machine.permissions[T].kind = "Leased"
            /\ ~machine.permissions[T].canceled
            /\ machine.permissions[T].lessor = Slot(machine, 1).permission

\* C23: at If(place, t, f) a place that reads as the boolean true moves the
\* pc to the start of block t and one that reads as false to the start of
\* block f, and the step returns Next; a place that holds another kind of
\* object makes the step fault with a type mismatch, and a place that
\* cannot be read with the fault of the traversal, the pc staying at the If.
C23_IfBranches ==
    (Completed /\ running = "none" /\ AtTerminator) =>
       \A v \in Locals : \A t, f \in Blocks :
          LET place == LocalVariable(v)
              tr == traverse_to_object(machine, place)
              o == ObjectAt(machine, place)
              pc == top_frame(machine).pc
              st == step_at_terminator(machine, If(place, t, f))
          IN /\ Len(st.m.stack) = Len(machine.stack)
             /\ IF tr.err # "none"
                THEN st.cf = "Err" /\ st.err = tr.err /\ top_frame(st.m).pc = pc
                ELSE IF o.kind # "Bool"
                THEN /\ st.cf = "Err" /\ st.err = "TypeMismatch"
                     /\ top_frame(st.m).pc = pc
                ELSE /\ st.cf = "Next"
                     /\ o.data \in {0, 1}
                     /\ top_frame(st.m).pc
                           = [bir |-> pc.bir,
                              basic_block |-> IF o.data = 1 THEN t ELSE f,
                              statement |-> 0]
                     /\ top_frame(st.m).variables = top_frame(machine).variables

\* The frame is at the terminator of its second block with false in one
\* slot and a tuple in another: If on the first goes to the block named for
\* false, If on the second faults.
C23_Witness ==
    /\ Completed /\ running = "none" /\ AtTerminator
    /\ top_frame(machine).pc.basic_block = 2
    /\ ObjectAt(machine, LocalVariable(3)).kind = "Bool"
    /\ ObjectAt(machine, LocalVariable(3)).data = 0
    /\ ObjectAt(machine, LocalVariable(2)).kind = "Tuple"
    /\ LET st == step_at_terminator(machine, If(LocalVariable(3), 2, 1))
           bad == step_at_terminator(machine, If(LocalVariable(2), 2, 1))
       IN /\ st.cf = "Next"
          /\ top_frame(st.m).pc = ProgramCounter(1, 0)
          /\ bad.cf = "Err" /\ bad.err = "TypeMismatch"

\* C24: at Assign(target, Call, next) whose arguments can be given, an
\* intrinsic returns a value and a user function gets a frame.  A returned
\* value is stored in the target and the pc moves to the start of block
\* next in the same step, the stack depth unchanged; a pushed frame is the
\* only frame added, it starts at the entry of the callee with the
\* arguments in its first slots, and the caller below it keeps its pc at the
\* Call terminator and its target unwritten.  Both cases return Next.
C24_CallReturnsOrPushes ==
    (Completed /\ running = "none" /\ AtTerminator) =>
       \A t \in FrameCalls :
          LET c == call(machine, t)
              st == step_at_terminator(machine, t)
              n == Len(machine.stack)
              pc == top_frame(machine).pc
              dest == t.destination.place.var
          IN c.err = "none" =>
               /\ t.function = "print" => ~c.pushed
               /\ t.function = "fn" => c.pushed
               /\ st.cf = "Next"
               /\ SubSeq(st.m.stack, 1, n - 1) = SubSeq(machine.stack, 1, n - 1)
               /\ IF c.pushed
                  THEN /\ Len(st.m.stack) = n + 1
                       /\ st.m.stack[n].pc = pc
                       /\ st.m.stack[n].terminator = t
                       /\ st.m.stack[n].variables[dest] = top_frame(machine).variables[dest]
                       /\ top_frame(st.m).pc = start_point(FnBir)
                       /\ top_frame(st.m).variables[1]
                             = give_place(machine, t.arguments[1]).val
                       /\ \A v \in Locals \ {1} : top_frame(st.m).variables[v] = Uninit
                  ELSE /\ Len(st.m.stack) = n
                       /\ top_frame(st.m).variables[dest] = c.val
                       /\ IsInit(c.val)
                       /\ top_frame(st.m).pc = move_to_block(pc, t.next_block)
                       /\ \A v \in Locals \ {dest} :
                             top_frame(st.m).variables[v] = top_frame(c.m).variables[v]

\* The frame is at the terminator of its first block with a tuple to pass
\* and a boolean in the target: the call of the intrinsic stores a thunk
\* in the target and moves to the second block, the call of the user
\* function pushes a frame and leaves the boolean in the target.
C24_Witness ==
    /\ Completed /\ running = "none" /\ AtTerminator
    /\ Len(machine.stack) = 1
    /\ top_frame(machine).pc.basic_block = 1
    /\ ObjectAt(machine, LocalVariable(2)).kind = "Tuple"
    /\ ObjectAt(machine, LocalVariable(3)).kind = "Bool"
    /\ LET native == step_at_terminator(machine,
                        AssignCall(TargetLocal(3), "print", <<LocalVariable(2)>>, 2))
           user == step_at_terminator(machine,
                        AssignCall(TargetLocal(3), "fn", <<LocalVariable(2)>>, 2))
       IN /\ native.cf = "Next" /\ FitsFrames(native.m)
          /\ Len(native.m.stack) = 1
          /\ top_frame(native.m).pc = ProgramCounter(2, 0)
          /\ ObjectAt(native.m, LocalVariable(3)).kind = "ThunkRust"
          /\ user.cf = "Next" /\ FitsFrames(user.m)
          /\ Len(user.m.stack) = 2
          /\ user.m.stack[1].pc = top_frame(machine).pc
          /\ user.m.stack[1].variables[3] = Slot(machine, 3)
          /\ ObjectAt(user.m, LocalVariable(1)).kind = "Tuple"

\* C25: at Assign(target, Await(thunk_place), next) whose place holds, with
\* a permission that can be given, a thunk of a user async function one
\* frame is pushed, with the captured arguments in its
\* first slots, and Next is returned; with a thunk of the host Await is
\* returned with the arguments of the thunk, the stack depth and the pc
\* unchanged.  In both cases the frame of the Await keeps its pc at the
\* terminator and the target is not written.
C25_AwaitPushesOrSuspends ==
    (Completed /\ running = "none" /\ AtTerminator) =>
       \A v \in Locals : \A next \in Blocks :
          LET t == AssignAwait(TargetLocal(2), LocalVariable(v), next)
              thunk == ObjectAt(machine, LocalVariable(v))
              st == step_at_terminator(machine, t)
              n == Len(machine.stack)
              pc == top_frame(machine).pc
          IN /\ st.cf # "Err" => thunk.kind \in {"ThunkFn", "ThunkRust"}
             /\ (/\ thunk.kind \in {"ThunkFn", "ThunkRust"}
                 /\ give_place(machine, LocalVariable(v)).err = "none") =>
                   /\ st.cf = IF thunk.kind = "ThunkFn" THEN "Next" ELSE "Await"
                   /\ Len(st.m.stack) = IF thunk.kind = "ThunkFn" THEN n + 1 ELSE n
                   /\ SubSeq(st.m.stack, 1, n - 1) = SubSeq(machine.stack, 1, n - 1)
                   /\ st.m.stack[n].pc = pc
                   /\ st.m.stack[n].terminator = t
                   /\ v # 2 => st.m.stack[n].variables[2] = top_frame(machine).variables[2]
                   /\ thunk.kind = "ThunkRust" => st.arguments = thunk.fields
                   /\ thunk.kind = "ThunkFn" =>
                         /\ top_frame(st.m).pc = start_point(AsyncFnBir)
                         /\ \A i \in 1..Len(thunk.fields) :
                               top_frame(st.m).variables[i] = thunk.fields[i]

\* A slot holds the thunk of a user async function and the target holds a
\* boolean: the Await pushes the frame of the function, and the frame below
\* is still at the terminator with the boolean in the target.
C25_Witness ==
    /\ Completed /\ running = "none" /\ AtTerminator
    /\ Len(machine.stack) = 1
    /\ ObjectAt(machine, LocalVariable(3)).kind = "ThunkFn"
    /\ ObjectAt(machine, LocalVariable(2)).kind = "Bool"
    /\ LET st == step_at_terminator(machine,
                     AssignAwait(TargetLocal(2), LocalVariable(3), 1))
       IN /\ st.cf = "Next" /\ FitsFrames(st.m)
          /\ Len(st.m.stack) = 2
          /\ st.m.stack[1].pc = top_frame(machine).pc
          /\ st.m.stack[1].variables[2] = Slot(machine, 2)
          /\ IsInit(top_frame(st.m).variables[1])

\* C26: Op(lhs, op, rhs) performs a read of both operand places, with the
\* lease-cancellation side effects an ordinary read of these places has, and
\* yields a newly allocated primitive value: whenever the operator succeeds,
\* the permissions it leaves are those left by read_place(lhs) followed by
\* read_place(rhs), and its value is a new integer object.
C26_OpReadsOperands ==
    Completed =>
      \A lhs \in Places, rhs \in Places :
         LET e == eval_expr(machine, Op(lhs, Plus, rhs))
             l == read_place(machine, lhs)
             r == read_place(l.m, rhs)
         IN e.err = "none" =>
              /\ r.err = "none"
              /\ SubSeq(e.m.permissions, 1, Len(machine.permissions))
                    = r.m.permissions
              /\ e.val.object > Len(machine.objects)
              /\ e.m.objects[e.val.object].kind = "Uint"

\* ------------------------------------------------------ renderer helpers
\* The rendering by the function named is complete.
Rendered(function) == writer.at = "done" /\ last = function

\* The positions of the lines of a kind in the output.
LinesOf(kind) == {i \in 1..Len(writer.output) : writer.output[i].kind = kind}

\* The definitions of the node named in the output.
Definitions(name) == {j \in LinesOf("node") : writer.output[j].node = name}

\* The snapshot has a cycle through its two objects.
Cyclic(g) ==
    /\ g.objects[1].fields[1].target = ObjectTarget(2)
    /\ g.objects[2].fields[1].target = ObjectTarget(1)

\* C27: in a standalone rendering every node that is the target of a
\* rendered edge (from a row of the stack or from a field of an object) is
\* defined exactly once in the output, also when several edges point to it
\* or the heap has a cycle.
C27_TargetsEmittedOnce ==
    Rendered("graphviz_alone") =>
      \A i \in LinesOf("edge") :
         Cardinality(Definitions(writer.output[i].target)) = 1

\* A standalone rendering of a cyclic heap with two edges to one node.
C27_Witness ==
    /\ Rendered("graphviz_alone")
    /\ Cyclic(heap_graph.start)
    /\ \E i \in LinesOf("edge"), j \in LinesOf("edge") :
          /\ i # j
          /\ writer.output[i].target = writer.output[j].target
          /\ writer.output[i].node.base = "stack"
          /\ writer.output[j].node.base = "node"

\* The position of the line with the text given.
LineWith(text) ==
    CHOOSE i \in 1..Len(writer.output) : writer.output[i].text = text

\* A line without the prefixes of its node names.
Unprefixed(line) == [line EXCEPT !.node.prefix = "", !.target.prefix = ""]

\* The contents of a cluster of a paired rendering, from the line after its
\* label to its closing brace, without the prefixes of the node names.
ClusterContents(from, to) ==
    [i \in 1..(to - (from + 1)) |-> Unprefixed(writer.output[from + 1 + i])]

AfterCluster ==
    ClusterContents(LineWith("subgraph cluster_after {"),
                    LineWith("subgraph cluster_before {") - 1)

BeforeCluster ==
    ClusterContents(LineWith("subgraph cluster_before {"), Len(writer.output) - 1)

\* C28: the paired rendering of a snapshot with itself has a before cluster
\* and an after cluster that are the same once the prefixes of the node
\* names are removed: the same stack rows, the same definitions of heap
\* nodes and the same edges.
C28_PairedClustersAgree ==
    (Rendered("graphviz_paired") /\ heap_graph.start = heap_graph.end) =>
       BeforeCluster = AfterCluster

\* The label of the data of a snapshot: its text, HTML-escaped.
Label(g) == encode_text(g.datas[1].debug)

\* The first 20 characters of a label, then [...], then its last 20.
FirstAndLast(label) ==
    SubSeq(label, 1, 20) \o <<91, 46, 46, 46, 93>>
      \o SubSeq(label, Len(label) - 19, Len(label))

\* C29: a data label of at most 40 characters is rendered as it is, and a
\* label of 41 characters or more is rendered as its first 20 characters,
\* then [...], then its last 20 characters.
C29_LabelElision ==
    Rendered("graphviz_alone") =>
      \A i \in LinesOf("data row") :
         /\ Len(Label(heap_graph.start)) <= 40
               => writer.output[i].data = Label(heap_graph.start)
         /\ Len(Label(heap_graph.start)) >= 41
               => writer.output[i].data = FirstAndLast(Label(heap_graph.start))

\* The line that opens the definition of the stack node of a cluster.
StackNodeLine(np) ==
    CHOOSE i \in LinesOf("node") : writer.output[i].node = NodeName(np, "stack", 0)

\* The first end of a table after the line from.
TableEnd(from) ==
    CHOOSE j \in (from + 1)..Len(writer.output) :
        /\ writer.output[j].text = "</table>"
        /\ \A k \in (from + 1)..(j - 1) : writer.output[k].text # "</table>"

\* The rows of the table of the stack node of a cluster.
StackRows(np) ==
    {i \in LinesOf("row") \cup LinesOf("data row") :
        StackNodeLine(np) < i /\ i < TableEnd(StackNodeLine(np))}

HasRow(np, port) == \E i \in StackRows(np) : writer.output[i].port = port

HasNamedRow(np, port, name) ==
    \E i \in StackRows(np) :
        writer.output[i].port = port /\ writer.output[i].text = name

HasEdge(np, port) ==
    \E i \in LinesOf("edge") :
        /\ writer.output[i].node = NodeName(np, "stack", 0)
        /\ writer.output[i].port = port

\* The variables of the frame of the snapshot g, as the cluster with the
\* prefix np shows them: a named variable has its row; a temporary has a
\* row, and an edge when it points to a node, exactly when temporaries are
\* included.  The k-th variable has the port k - 1.
VariablesShown(np, g) ==
    \A k \in 1..Len(g.stack[1].variables) :
       LET v == g.stack[1].variables[k]
       IN IF v.name # <<>> THEN HasNamedRow(np, k - 1, v.name[1])
          ELSE /\ HasRow(np, k - 1) <=> writer.include_temporaries
               /\ v.value.target.kind # "Data"
                     => (HasEdge(np, k - 1) <=> writer.include_temporaries)

\* C30: in a rendered stack frame a variable without a name (a temporary)
\* has a row, and an edge if it points to a heap node, if and only if
\* include_temporaries is set; a named variable always has its row.
C30_TemporariesOnFlag ==
    /\ Rendered("graphviz_alone") => VariablesShown("", heap_graph.start)
    /\ Rendered("graphviz_paired") =>
          /\ VariablesShown("after", heap_graph.end)
          /\ VariablesShown("before", heap_graph.start)

\* A rendering without temporaries of a frame with a temporary that points
\* to an object and a named variable that points to an object: only the
\* second has a row and an edge.
C30_Witness ==
    /\ Rendered("graphviz_alone")
    /\ ~writer.include_temporaries
    /\ heap_graph.start.stack[1].variables[1].name = <<>>
    /\ heap_graph.start.stack[1].variables[1].value.target = ObjectTarget(1)
    /\ heap_graph.start.stack[1].variables[2].name # <<>>
    /\ heap_graph.start.stack[1].variables[2].value.target = ObjectTarget(2)
    /\ ~HasRow("", 0) /\ ~HasEdge("", 0)
    /\ HasNamedRow("", 1, "q") /\ HasEdge("", 1)

\* ------------------------------------------------- control-point helpers
\* The set S holds with every point its successors.
Closed(S) == \A p \in S : Range(successors(bir_data, p)) \subseteq S

\* The control points reachable from the start point: those in every closed
\* set that holds the start point.
ReachablePoints ==
    {p \in ControlPoints :
        \A S \in SUBSET ControlPoints :
           (bir_data.start_point \in S /\ Closed(S)) => p \in S}

\* The number of successors of the kind of a control point.
Arity(d) ==
    CASE d.kind \in {"Statement", "Goto", "StartAtomic", "EndAtomic", "Call", "Await"} -> 1
      [] d.kind = "If" -> 2
      [] OTHER -> 0

\* The point p is on a cycle: it is reachable from its successors.
OnCycle(p) ==
    \E S \in SUBSET ControlPoints :
       /\ p \in S
       /\ \A q \in S : \E r \in S : q \in Range(successors(bir_data, r))
       /\ \A T \in SUBSET S : (T # {} /\ T # S) =>
              \E r \in T : Range(successors(bir_data, r)) \cap (S \ T) # {}

\* C34: control_points returns exactly the control points reachable from
\* the start point by following successors, the start point included (one
\* successor for a statement, Goto, StartAtomic, EndAtomic and Assign, two
\* for If, none for Return, Error and Panic); it returns on graphs with
\* cycles too.
C34_ControlPointsReachable ==
    last = "control_points" =>
       /\ points = ReachablePoints
       /\ bir_data.start_point \in points
       /\ \A p \in ControlPoints :
             Len(successors(bir_data, p)) = Arity(bir_data.control_points[p])

\* The control points of a graph with a cycle through an If that has two
\* distinct successors, and with a point that is not reachable.
C34_Witness ==
    /\ last = "control_points"
    /\ points # ControlPoints
    /\ \E p \in points :
          /\ OnCycle(p)
          /\ bir_data.control_points[p].kind = "If"
          /\ bir_data.control_points[p].if_true # bir_data.control_points[p].if_false
          /\ bir_data.control_points[p].if_false \in points

\* ------------------------------------------------------- stepper helpers
\* step() can be entered: the last call returned Next, no callback is
\* running and there is a frame.
StepEntered == result.cf = "Next" /\ running = "none" /\ machine.stack # <<>>

\* C31: in every state where step() is entered the pc of the top frame has
\* pc.statement at most the number of statements of its basic block, so
\* the assertion at the head of step() never fails in a run driven by
\* step, call, return and awaken; the same holds of the frames below.
C31_StatementInRange ==
    /\ StepEntered => (AtStatement \/ AtTerminator)
    /\ \A i \in 1..Len(machine.stack) :
          /\ machine.stack[i].pc.basic_block \in Blocks
          /\ machine.stack[i].pc.statement
                <= BlockStatements[machine.stack[i].pc.basic_block]

\* step() is entered after a return into the caller, whose pc is at the
\* terminator of the block the call continues in.
C31_Witness ==
    /\ StepEntered
    /\ last = "Return"
    /\ top_frame(machine).pc.basic_block = 2
    /\ top_frame(machine).pc.statement = BlockStatements[2]
    /\ AtTerminator

\* The step returned the fault of r with the machine as r left it, and the
\* pc and the depth of the stack are those of the machine before the step.
FaultReturned(cf, r) ==
    /\ cf.cf = "Err"
    /\ cf.err = r.err
    /\ cf.m = r.m
    /\ Len(cf.m.stack) = Len(machine.stack)
    /\ top_frame(cf.m).pc = top_frame(machine).pc

\* C32: when step() faults in a statement (in the evaluation of the
\* expression, in the assignment, or by a failure of a breakpoint callback)
\* or at an Error or Panic terminator, the pc and the depth of the stack
\* are those before the step, and neither gc nor assert_invariants runs:
\* the machine is returned as the faulting operation left it.
C32_FaultKeepsPc ==
    /\ (StepEntered /\ AtStatement) =>
          \A s \in FrameStatements :
             step_statement(machine, s).err # "none" =>
                FaultReturned(step_at_statement(machine, s),
                              step_statement(machine, s))
    /\ running # "none" =>
          \A ok \in BOOLEAN, invoked \in BOOLEAN, place \in InFlightPlaces(running) :
             breakpoint_callback(machine, ok, invoked, place).err # "none" =>
                FaultReturned(statement_stepped(top_frame(machine).pc,
                                 breakpoint_callback(machine, ok, invoked, place)),
                              breakpoint_callback(machine, ok, invoked, place))
    /\ (StepEntered /\ AtTerminator) =>
          \A t \in {ErrorTerminator, Panic} :
             FaultReturned(step_at_terminator(machine, t), Err(machine, step_at_terminator(machine, t).err))

\* A statement faulted and left an object that nothing reaches: a sweep
\* would have freed it.
C32_Witness ==
    /\ result.cf = "Err"
    /\ last = "Assign"
    /\ machine.stack # <<>>
    /\ top_frame(machine).pc.statement = 0
    /\ gc(machine, {}) # machine

\* The endpoints of the edge at line i are defined in the output, with one
\* prefix: the source is the stack node or a heap node, the target a heap
\* node.
EndpointsDefined(i) ==
    /\ Definitions(writer.output[i].node) # {}
    /\ Definitions(writer.output[i].target) # {}
    /\ writer.output[i].node.base \in {"stack", "node"}
    /\ writer.output[i].target.base = "node"
    /\ writer.output[i].node.prefix = writer.output[i].target.prefix

\* C33: in every rendering, standalone or paired, both endpoints of every
\* emitted edge name a node defined in the same output with the current
\* prefix: the source is the stack node or a heap node, the target is a
\* heap node; the edges from an in-flight row are included.
C33_EdgeEndpointsDefined ==
    (Rendered("graphviz_alone") \/ Rendered("graphviz_paired")) =>
       \A i \in LinesOf("edge") : EndpointsDefined(i)

\* The permission p, canceled before the step, is canceled after it unless
\* the sweep reclaimed it, and every read through a value that holds it
\* faults.
StaysCanceled(p) ==
    p \in Allocated(machine') =>
       /\ machine'.permissions[p].canceled
       /\ machine'.stack # <<>> => ReadsThroughFault(machine', p)

\* C35: cancellation is permanent: a canceled permission is canceled in
\* every later state until it is reclaimed; no give, share, lease,
\* assignment, call, return, awaken or gc makes it usable again, and every
\* traversal that encounters it faults.
C35_CancelPermanent == [][\A p \in Canceled(machine) : StaysCanceled(p)]_vars

\* A canceled lease is still held by a slot of the caller after a call
\* pushed a frame.
C35_Witness ==
    /\ last = "Call"
    /\ Len(machine.stack) = 2
    /\ \E v \in Locals :
          /\ IsInit(machine.stack[1].variables[v])
          /\ machine.stack[1].variables[v].permission \in Canceled(machine)
          /\ machine.permissions[machine.stack[1].variables[v].permission].kind = "Leased"
====
